---- MODULE Spec2Model ----
(***************************************************************************)
(* A model of httm's version-lookup engine (src/src/lookup/versions.rs):   *)
(* versions_lookup_exec, DisplayMap::new, the proximity and relative-path  *)
(* resolvers and the last-snap reduction; and of the recursive enumeration *)
(* (src/src/exec/recursive.rs, src/src/recursive.rs): the live loop, the   *)
(* directory filter, the deleted search and the two control channels.      *)
(*                                                                         *)
(* A path is the sequence of its components (<<>> is "/").  An Option is  *)
(* the empty sequence (None) or a one-element sequence (Some).  A Result   *)
(* is a record with the field ok, and val when ok.                         *)
(***************************************************************************)
EXTENDS Naturals, Sequences, FiniteSets, TLC

VARIABLES
    config,       \* Config: the options and the dataset_collection (read-only)
    fs,           \* the filesystem: what a stat of each snapshot path returns
    path_set,     \* the live PathData handed to versions_lookup_exec
    pending,      \* the elements of path_set that DisplayMap::new has not mapped yet
    display_map,  \* DisplayMap.inner as collected so far: live PathData -> Vec<PathData>
    trace,        \* per live PathData, the intermediate values of its pipeline
    result,       \* what versions_lookup_exec returned (status "pending" before)
    pc,           \* where the thread of RecursiveSearch::exec stands
    queue,        \* RecursiveMainLoop::exec's queue of directories
    item,         \* the directory the loop popped (an Option)
    hangup_closed,    \* the consumer dropped the sender of the hangup channel
    skim_rx_dropped,  \* the consumer dropped the receiver of the item channel
    skim,         \* the items sent on the item channel, in the order sent
    printed,      \* the entries printed in non-interactive recursive mode
    deleted_scope,    \* the deleted-search tasks spawned and not yet run
    processed,    \* the directories RecursiveMainLoop::new was called for
    entries_partitioned   \* what a call of get_entries_partitioned returned (an Option)

lookup_vars == <<path_set, pending, display_map, trace, result>>
recursive_vars == <<pc, queue, item, hangup_closed, skim_rx_dropped, skim, printed,
                    deleted_scope, processed>>
vars == <<config, fs, path_set, pending, display_map, trace, result, pc, queue, item,
          hangup_closed, skim_rx_dropped, skim, printed, deleted_scope, processed,
          entries_partitioned>>

----------------------------------------------------------------------------
(* Bounds and program constants *)

\* modify times range over PHANTOM_DATE..MaxTime (seconds after the epoch)
MaxTime == 1

\* the placeholder metadata of a phantom PathData
PHANTOM_DATE == 0
PHANTOM_SIZE == 0

\* the symbolic links the operating system follows in resolving one path
MaxSymlinks == 2

\* file sizes of the model's files
Sizes == {PHANTOM_SIZE, 10}
Times == PHANTOM_DATE..MaxTime

PathMetadata == [modify_time : Times, size : Sizes]
None == <<>>
Some(x) == <<x>>
OptMetadata == {None} \cup {Some(m) : m \in PathMetadata}

Ok(v) == [ok |-> TRUE, val |-> v]
Err == [ok |-> FALSE]

----------------------------------------------------------------------------
(* Sequences and paths *)

Min(S) == CHOOSE x \in S : \A y \in S : x <= y
Max(S) == CHOOSE x \in S : \A y \in S : y <= x

RECURSIVE Flatten(_)
Flatten(ss) == IF ss = <<>> THEN <<>> ELSE Head(ss) \o Flatten(Tail(ss))

Range(s) == {s[i] : i \in DOMAIN s}

\* the component order of std::path::Path (byte order of the names used here)
ComponentOrder == <<".h", ".snapshots", ".zfs", "1", "2", "a", "c", "d", "f", "g", "h", "l", "m", "p",
                    "r", "r1", "r2", "s", "snapshot", "t", "up", "x", "y", "z">>
Rank(c) == CHOOSE i \in DOMAIN ComponentOrder : ComponentOrder[i] = c

\* Path's Ord: lexicographic over the components
PathLess(p, q) ==
    \E i \in 1..(Len(q)) :
        /\ i <= Len(p) + 1
        /\ \A j \in 1..(i - 1) : p[j] = q[j]
        /\ \/ i = Len(p) + 1
           \/ i <= Len(p) /\ Rank(p[i]) < Rank(q[i])

starts_with(p, base) == Len(base) <= Len(p) /\ SubSeq(p, 1, Len(base)) = base

\* Path::strip_prefix
strip_prefix(p, base) ==
    IF starts_with(p, base) THEN Ok(SubSeq(p, Len(base) + 1, Len(p))) ELSE Err

\* Path::ancestors: the path itself first, then each parent, the root last
ancestors(p) == [i \in 1..(Len(p) + 1) |-> SubSeq(p, 1, Len(p) + 1 - i)]

\* Path::join of a relative path
join(root, relative_path) == root \o relative_path

----------------------------------------------------------------------------
(* PathData *)

\* PathData::from: the path with the metadata a stat of it returns
PathData_from(path) == [path_buf |-> path, metadata |-> fs[path]]

PHANTOM_PATH_METADATA == [modify_time |-> PHANTOM_DATE, size |-> PHANTOM_SIZE]

\* PathData::md_infallible: the metadata, or the phantom placeholder
md_infallible(pathdata) ==
    IF pathdata.metadata = None THEN PHANTOM_PATH_METADATA ELSE pathdata.metadata[1]

\* the key of get_versions' BTreeMap and its order
MdKey(metadata) == <<metadata.modify_time, metadata.size>>
KeyLess(a, b) == a[1] < b[1] \/ (a[1] = b[1] /\ a[2] < b[2])

RECURSIVE SortedKeys(_)
SortedKeys(keys) ==
    IF keys = {} THEN <<>>
    ELSE LET least == CHOOSE k \in keys : \A k2 \in keys \ {k} : KeyLess(k, k2)
         IN  <<least>> \o SortedKeys(keys \ {least})

----------------------------------------------------------------------------
(* Rayon's parallel iterators: the items of par_iter() are worked on by the  *)
(* pool's threads and finish in any order.  A schedule gives, for each       *)
(* par_iter of a lookup, the order in which its items finish.                *)

Permutations_of(n) ==
    {s \in [1..n -> 1..n] : \A i, j \in 1..n : s[i] = s[j] => i = j}

\* the order in which the first n items finish
finish_order(finishes, n) == SelectSeq(finishes, LAMBDA i : i <= n)

\* the results of the items of a par_iter, in the order they finish
par_iter(results, finishes) ==
    LET finished == finish_order(finishes, Len(results))
    IN  [k \in DOMAIN finished |-> [index |-> finished[k], result |-> results[finished[k]]]]

\* a collect that takes the results as they finish
collect_as_finished(done) == [k \in DOMAIN done |-> done[k].result]

\* collect() of a parallel iterator: each result at the place of its item
collect(done) ==
    [i \in DOMAIN done |-> (CHOOSE d \in Range(done) : d.index = i).result]

----------------------------------------------------------------------------
(* The resolvers of src/src/lookup/versions.rs *)

MostProximate == "MostProximate"
AltReplicated == "AltReplicated"

\* alt replicated comes first, so as to be at the top of the results
INCLUDE_ALTS == <<AltReplicated, MostProximate>>
ONLY_PROXIMATE == <<MostProximate>>

\* SnapsSelectedForSearch::get_value
get_value(snaps_selected_for_search) ==
    IF snaps_selected_for_search = "IncludeAltReplicated"
    THEN INCLUDE_ALTS
    ELSE ONLY_PROXIMATE

\* find_map over the ancestors, the path itself first, then towards the root
get_proximate_dataset_farthest(pathdata, map_of_datasets) ==
    LET anc  == ancestors(pathdata.path_buf)
        hits == {i \in DOMAIN anc : anc[i] \in DOMAIN map_of_datasets}
    IN  IF hits = {} THEN Err ELSE Ok(anc[Max(hits)])

get_proximate_dataset(pathdata, map_of_datasets) ==
    LET anc  == ancestors(pathdata.path_buf)
        hits == {i \in DOMAIN anc : anc[i] \in DOMAIN map_of_datasets}
    IN  IF hits = {} THEN Err ELSE Ok(anc[Min(hits)])

get_alias_dataset(pathdata, map_of_alias) ==
    LET anc  == ancestors(pathdata.path_buf)
        hits == {i \in DOMAIN anc : anc[i] \in DOMAIN map_of_alias}
    IN  IF hits = {} THEN None ELSE Some(map_of_alias[anc[Min(hits)]].remote_dir)

\* a resolver that asks the datasets map before the alias map
proximate_dataset_mount_datasets_first(config_, pathdata) ==
    LET dc    == config_.dataset_collection
        mount == get_proximate_dataset(pathdata, dc.map_of_datasets)
    IN  IF mount.ok \/ dc.opt_map_of_aliases = None
        THEN mount
        ELSE LET alias_snap_dir == get_alias_dataset(pathdata, dc.opt_map_of_aliases[1])
             IN  IF alias_snap_dir # None THEN Ok(alias_snap_dir[1]) ELSE mount

\* MostProximateAndOptAlts::new, its first statement
proximate_dataset_mount(config_, pathdata) ==
    LET dc == config_.dataset_collection
    IN  IF dc.opt_map_of_aliases # None
        THEN LET alias_snap_dir == get_alias_dataset(pathdata, dc.opt_map_of_aliases[1])
             IN  IF alias_snap_dir # None
                 THEN Ok(alias_snap_dir[1])
                 ELSE get_proximate_dataset(pathdata, dc.map_of_datasets)
        ELSE get_proximate_dataset(pathdata, dc.map_of_datasets)

\* a MostProximateAndOptAlts::new that, for a mount the map of alts does not
\* know, searches the mount itself as its alternate
MostProximateAndOptAlts_new_own_alt(config_, pathdata, requested_dataset_type) ==
    LET dc    == config_.dataset_collection
        mount == proximate_dataset_mount(config_, pathdata)
    IN  IF ~mount.ok THEN Err
        ELSE IF requested_dataset_type = MostProximate
        THEN Ok([proximate_dataset_mount  |-> mount.val,
                 opt_datasets_of_interest |-> None])
        ELSE LET map_of_alts == dc.opt_map_of_alts[1]
             IN  IF mount.val \in DOMAIN map_of_alts
                 THEN Ok(map_of_alts[mount.val])
                 ELSE Ok([proximate_dataset_mount  |-> mount.val,
                          opt_datasets_of_interest |-> Some(<<mount.val>>)])

\* MostProximateAndOptAlts::new
MostProximateAndOptAlts_new(config_, pathdata, requested_dataset_type) ==
    LET dc    == config_.dataset_collection
        mount == proximate_dataset_mount(config_, pathdata)
    IN  IF ~mount.ok THEN Err
        ELSE IF requested_dataset_type = MostProximate
        THEN Ok([proximate_dataset_mount  |-> mount.val,
                 opt_datasets_of_interest |-> None])
        ELSE \* a missing map of alts is unreachable!(): Init never builds one
             LET map_of_alts == dc.opt_map_of_alts[1]
             IN  IF mount.val \in DOMAIN map_of_alts
                 THEN Ok(map_of_alts[mount.val])
                 ELSE Err

\* get_relative_path
get_relative_path(config_, pathdata, proximate_mount) ==
    LET dc       == config_.dataset_collection
        default  == strip_prefix(pathdata.path_buf, proximate_mount)
    IN  IF dc.opt_map_of_aliases = None THEN default
        ELSE LET map_of_aliases == dc.opt_map_of_aliases[1]
                 \* iter().find_map: the first key, in the map's order, with that value
                 found == {local_dir \in DOMAIN map_of_aliases :
                              map_of_aliases[local_dir].remote_dir = proximate_mount}
             IN  IF found = {} THEN default
                 ELSE LET local_dir == CHOOSE l \in found :
                                          \A l2 \in found \ {l} : PathLess(l, l2)
                          alias_stripped_path == strip_prefix(pathdata.path_buf, local_dir)
                      IN  IF alias_stripped_path.ok THEN alias_stripped_path ELSE default

\* RelativePathAndSnapMounts::new
RelativePathAndSnapMounts_new(config_, pathdata, proximate_mount, dataset_of_interest) ==
    LET relative_path == get_relative_path(config_, pathdata, proximate_mount)
        map_of_snaps  == config_.dataset_collection.map_of_snaps
    IN  IF ~relative_path.ok THEN Err
        ELSE IF dataset_of_interest \notin DOMAIN map_of_snaps THEN Err
        ELSE Ok([relative_path |-> relative_path.val,
                 snap_mounts   |-> map_of_snaps[dataset_of_interest]])

\* MostProximateAndOptAlts::get_search_bundles
get_search_bundles(self, config_, pathdata) ==
    LET mount == self.proximate_dataset_mount
    IN  IF self.opt_datasets_of_interest # None
        THEN LET datasets_of_interest == self.opt_datasets_of_interest[1]
                 bundles == [i \in DOMAIN datasets_of_interest |->
                                RelativePathAndSnapMounts_new(config_, pathdata, mount,
                                                              datasets_of_interest[i])]
             IN  \* collect() into a Result: the first Err is the result
                 IF \A i \in DOMAIN bundles : bundles[i].ok
                 THEN Ok([i \in DOMAIN bundles |-> bundles[i].val])
                 ELSE Err
        ELSE LET bundle == RelativePathAndSnapMounts_new(config_, pathdata, mount, mount)
             IN  IF bundle.ok THEN Ok(<<bundle.val>>) ELSE Err

\* get_versions without the BTreeMap: every version found, in snap_mounts order
get_versions_unsorted(self, schedule) ==
    LET stats == [i \in DOMAIN self.snap_mounts |->
                     PathData_from(join(self.snap_mounts[i], self.relative_path))]
    IN  SelectSeq(stats, LAMBDA pathdata : pathdata.metadata # None)

\* get_versions stat-ing the live side of the relative path
get_versions_unjoined(self, schedule) ==
    LET stats == [i \in DOMAIN self.snap_mounts |->
                     [path_buf |-> self.relative_path,
                      metadata |-> fs[join(self.snap_mounts[i], self.relative_path)]]]
        found == {i \in DOMAIN stats : stats[i].metadata # None}
        keys  == {MdKey(md_infallible(stats[i])) : i \in found}
        unique_versions == [k \in keys |->
            stats[Max({i \in found : MdKey(md_infallible(stats[i])) = k})]]
        order == SortedKeys(keys)
    IN  [i \in DOMAIN order |-> unique_versions[order[i]]]

\* get_versions without the filter_map: a path no stat finds stays, keyed by
\* the placeholder metadata
get_versions_unfiltered(self, schedule) ==
    LET stats == [i \in DOMAIN self.snap_mounts |->
                     PathData_from(join(self.snap_mounts[i], self.relative_path))]
        found == DOMAIN stats
        keys  == {MdKey(md_infallible(stats[i])) : i \in found}
        unique_versions == [k \in keys |->
            stats[Max({i \in found : MdKey(md_infallible(stats[i])) = k})]]
        order == SortedKeys(keys)
    IN  [i \in DOMAIN order |-> unique_versions[order[i]]]

\* get_versions filling its BTreeMap in the order the stats finish
get_versions_as_finished(self, schedule) ==
    LET results == [i \in DOMAIN self.snap_mounts |->
                       PathData_from(join(self.snap_mounts[i], self.relative_path))]
        stats == collect_as_finished(par_iter(results, schedule.snap_mounts))
        found == {i \in DOMAIN stats : stats[i].metadata # None}
        keys  == {MdKey(md_infallible(stats[i])) : i \in found}
        unique_versions == [k \in keys |->
            stats[Max({i \in found : MdKey(md_infallible(stats[i])) = k})]]
        order == SortedKeys(keys)
    IN  [i \in DOMAIN order |-> unique_versions[order[i]]]

\* RelativePathAndSnapMounts::get_versions: the snap mounts are stat-ed in
\* parallel and collected into a BTreeMap keyed by (modify_time, size), which
\* is filled in snap_mounts order (a later insert replaces the value of its
\* key); then its values in key order
get_versions(self, schedule) ==
    LET results == [i \in DOMAIN self.snap_mounts |->
                       PathData_from(join(self.snap_mounts[i], self.relative_path))]
        stats == collect(par_iter(results, schedule.snap_mounts))
        found == {i \in DOMAIN stats : stats[i].metadata # None}
        keys  == {MdKey(md_infallible(stats[i])) : i \in found}
        unique_versions == [k \in keys |->
            stats[Max({i \in found : MdKey(md_infallible(stats[i])) = k})]]
        order == SortedKeys(keys)
    IN  [i \in DOMAIN order |-> unique_versions[order[i]]]

----------------------------------------------------------------------------
(* DisplayMap *)

LastSnapModes == {"None", "Any", "DittoOnly", "NoDittoExclusive", "NoDittoInclusive"}

SelectOk(results) ==
    LET oks == SelectSeq(results, LAMBDA r : r.ok)
    IN  [i \in DOMAIN oks |-> oks[i].val]

\* an omit_ditto filter that compares the modify times alone
omit_ditto_keeps_by_time(config_, pathdata, snap_version) ==
    IF config_.opt_omit_ditto
    THEN md_infallible(snap_version).modify_time # md_infallible(pathdata).modify_time
    ELSE TRUE

\* the omit_ditto filter of DisplayMap::new
omit_ditto_keeps(config_, pathdata, snap_version) ==
    IF config_.opt_omit_ditto
    THEN md_infallible(snap_version) # md_infallible(pathdata)
    ELSE TRUE

\* the schedules of a lookup: a finishing order for the dataset types and one
\* for the snap mounts of a search bundle
MaxSnapMounts(config_) ==
    LET map_of_snaps == config_.dataset_collection.map_of_snaps
    IN  IF DOMAIN map_of_snaps = {} THEN 0
        ELSE Max({Len(map_of_snaps[m]) : m \in DOMAIN map_of_snaps})
Schedules(config_) ==
    [dataset_types :
        Permutations_of(Len(get_value(config_.dataset_collection.snaps_selected_for_search))),
     snap_mounts : Permutations_of(MaxSnapMounts(config_))]

\* DisplayMap::new, the chain of flat_maps for one dataset type, from what
\* MostProximateAndOptAlts::new gave: an Err is dropped by the flat_map that
\* meets it
versions_of(search_bundles, schedule) ==
    [proximity      |-> <<>>,
     search_bundles |-> search_bundles,
     versions       |-> Flatten([i \in DOMAIN search_bundles |->
                            get_versions(search_bundles[i], schedule)])]
search_bundles_of(config_, pathdata, datasets_for_search, schedule) ==
    versions_of(Flatten(SelectOk([i \in DOMAIN datasets_for_search |->
                    get_search_bundles(datasets_for_search[i], config_, pathdata)])),
                schedule)
chain(config_, pathdata, dataset_for_search, schedule) ==
    [search_bundles_of(config_, pathdata, SelectOk(<<dataset_for_search>>), schedule)
        EXCEPT !.proximity = dataset_for_search]

\* what the chains of the dataset types gave, together
gathered(config_, pathdata, collected, versions) ==
    [proximity      |-> [i \in DOMAIN collected |-> collected[i].proximity],
     search_bundles |-> Flatten([i \in DOMAIN collected |-> collected[i].search_bundles]),
     versions       |-> versions,
     snaps          |-> SelectSeq(versions,
                           LAMBDA v : omit_ditto_keeps(config_, pathdata, v))]
flattened(config_, pathdata, collected) ==
    gathered(config_, pathdata, collected,
             Flatten([i \in DOMAIN collected |-> collected[i].versions]))

\* DisplayMap::new, the first closure: the snapshot versions of one live path.
\* The dataset types are worked on in parallel, each through the whole chain
\* of flat_maps, and collect() puts what each gave in the order of the types.
snaps_of(config_, pathdata, schedule) ==
    LET types == get_value(config_.dataset_collection.snaps_selected_for_search)
    IN  flattened(config_, pathdata,
            collect(par_iter([i \in DOMAIN types |->
                                 chain(config_, pathdata,
                                       MostProximateAndOptAlts_new(config_, pathdata, types[i]),
                                       schedule)],
                             schedule.dataset_types)))

\* a get_last_snap that looks at the oldest version instead of the last
get_last_snap_oldest(last_snap_mode, pathdata, snaps) ==
    IF snaps # <<>>
    THEN LET last == snaps[1]
         IN  CASE last_snap_mode = "Any" -> <<last>>
               [] last_snap_mode = "DittoOnly"
                    /\ md_infallible(pathdata) = md_infallible(last) -> <<last>>
               [] last_snap_mode = "NoDittoExclusive"
                    /\ md_infallible(pathdata) # md_infallible(last) -> <<last>>
               [] last_snap_mode = "NoDittoInclusive"
                    /\ md_infallible(pathdata) # md_infallible(last) -> <<last>>
               [] OTHER -> <<>>
    ELSE IF last_snap_mode \in {"None", "NoDittoInclusive"}
         THEN <<pathdata>>
         ELSE <<>>

\* DisplayMap::get_last_snap
get_last_snap(last_snap_mode, pathdata, snaps) ==
    IF snaps # <<>>
    THEN LET last == snaps[Len(snaps)]
         IN  CASE last_snap_mode = "Any" -> <<last>>
               [] last_snap_mode = "DittoOnly"
                    /\ md_infallible(pathdata) = md_infallible(last) -> <<last>>
               [] last_snap_mode = "NoDittoExclusive"
                    /\ md_infallible(pathdata) # md_infallible(last) -> <<last>>
               [] last_snap_mode = "NoDittoInclusive"
                    /\ md_infallible(pathdata) # md_infallible(last) -> <<last>>
               [] OTHER -> <<>>
    ELSE IF last_snap_mode \in {"None", "NoDittoInclusive"}
         THEN <<pathdata>>
         ELSE <<>>

\* a reduction in which mode None keeps the versions it is given
reduce_none_keeps(config_, pathdata, snaps) ==
    IF config_.opt_last_snap = None
       \/ (config_.opt_last_snap = Some("None") /\ snaps # <<>>)
    THEN snaps
    ELSE get_last_snap(config_.opt_last_snap[1], pathdata, snaps)

\* DisplayMap::new, the second closure: the last-snap reduction, when asked for
reduce(config_, pathdata, snaps) ==
    IF config_.opt_last_snap # None
    THEN get_last_snap(config_.opt_last_snap[1], pathdata, snaps)
    ELSE snaps

\* a versions_lookup_exec that fails as soon as one path has no copy at all
versions_lookup_exec_any(config_, map_live_to_snaps) ==
    IF /\ \E pathdata \in DOMAIN map_live_to_snaps :
              map_live_to_snaps[pathdata] = <<>> /\ pathdata.metadata = None
       /\ ~config_.opt_no_snap
    THEN [status |-> "Err", map |-> <<>>]
    ELSE [status |-> "Ok", map |-> map_live_to_snaps]

\* versions_lookup_exec, after DisplayMap::new
versions_lookup_exec(config_, map_live_to_snaps) ==
    IF /\ \A pathdata \in DOMAIN map_live_to_snaps : map_live_to_snaps[pathdata] = <<>>
       /\ \A pathdata \in DOMAIN map_live_to_snaps : pathdata.metadata = None
       /\ ~config_.opt_no_snap
    THEN [status |-> "Err", map |-> <<>>]
    ELSE [status |-> "Ok", map |-> map_live_to_snaps]

----------------------------------------------------------------------------
(* Actions *)

\* a DisplayMap::new that reduces to the last snap first and omits the ditto
\* versions afterwards
MapPath_reduce_first(pathdata) ==
    /\ result.status = "pending"
    /\ pathdata \in pending
    /\ \E schedule \in Schedules(config) :
        LET found == snaps_of(config, pathdata, schedule)
        IN  /\ trace' = (pathdata :> found) @@ trace
            /\ display_map' = (pathdata :>
                                   SelectSeq(reduce(config, pathdata, found.versions),
                                             LAMBDA v : omit_ditto_keeps(config, pathdata, v)))
                                  @@ display_map
    /\ pending' = pending \ {pathdata}
    /\ UNCHANGED <<config, fs, path_set, result>>
    /\ UNCHANGED <<recursive_vars, entries_partitioned>>

\* DisplayMap::new's par_iter over path_set: one live path goes through both
\* closures and its entry is collected into the map
MapPath(pathdata) ==
    /\ result.status = "pending"
    /\ pathdata \in pending
    /\ \E schedule \in Schedules(config) :
        LET found == snaps_of(config, pathdata, schedule)
        IN  /\ trace' = (pathdata :> found) @@ trace
            /\ display_map' = (pathdata :> reduce(config, pathdata, found.snaps))
                                  @@ display_map
    /\ pending' = pending \ {pathdata}
    /\ UNCHANGED <<config, fs, path_set, result>>
    /\ UNCHANGED <<recursive_vars, entries_partitioned>>

\* versions_lookup_exec returns, once every path is in the map
Return ==
    /\ result.status = "pending"
    /\ pending = {}
    /\ result' = versions_lookup_exec(config, display_map)
    /\ UNCHANGED <<config, fs, path_set, pending, display_map, trace>>
    /\ UNCHANGED <<recursive_vars, entries_partitioned>>

Next ==
    \/ \E pathdata \in path_set : MapPath(pathdata)
    \/ Return

----------------------------------------------------------------------------
(* Inventories, filesystems and path sets *)

\* the snapshot roots of a ZFS dataset mounted at mount
snapshot_root(mount, name) == mount \o <<".zfs", "snapshot", name>>

DatasetMetadata == [fs_type |-> "Zfs", mount_type |-> "Local"]
DatasetsAt(mounts) == [m \in mounts |-> DatasetMetadata]

OptLastSnap == {None} \cup {Some(m) : m \in LastSnapModes}

\* /t is replicated to /r1 and /r2
Tank == <<"t">>
Replica1 == <<"r1">>
Replica2 == <<"r2">>
OneSnapshot(mount) == <<snapshot_root(mount, "1")>>
TwoSnapshots(mount) == <<snapshot_root(mount, "1"), snapshot_root(mount, "2")>>
AltsOf(datasets_of_interest) ==
    (Tank :> [proximate_dataset_mount  |-> Tank,
              opt_datasets_of_interest |-> Some(datasets_of_interest)])

\* The dataset collections config generation builds around /t: the snapshots of
\* each dataset, the search strategy and, with IncludeAltReplicated, the map of
\* alts (which has no entry for a dataset nothing replicates).
TankCollections ==
    LET two == (Tank :> TwoSnapshots(Tank)) @@ (Replica1 :> OneSnapshot(Replica1))
        all == (Tank :> OneSnapshot(Tank)) @@ (Replica1 :> OneSnapshot(Replica1))
                   @@ (Replica2 :> OneSnapshot(Replica2))
        bare == (Tank :> OneSnapshot(Tank)) @@ (Replica1 :> OneSnapshot(Replica1))
        Collection(snaps, strategy, alts) ==
            [map_of_datasets    |-> DatasetsAt({Tank, Replica1, Replica2}),
             map_of_snaps       |-> snaps,
             opt_map_of_alts    |-> alts,
             opt_map_of_aliases |-> None,
             snaps_selected_for_search |-> strategy]
    IN  {Collection(two, "MostProximateOnly", None),
         Collection(two, "IncludeAltReplicated", Some(<<>>)),
         Collection(two, "IncludeAltReplicated", Some(AltsOf(<<Replica1>>))),
         Collection(all, "IncludeAltReplicated", Some(AltsOf(<<Replica1, Replica2>>))),
         Collection(bare, "IncludeAltReplicated", Some(AltsOf(<<Replica1, Replica2>>))),
         Collection(bare, "IncludeAltReplicated", Some(AltsOf(<<Replica2, Replica1>>)))}

LiveFile == <<"t", "f">>
SnapshotFiles(snaps, relative_paths) ==
    {join(root, r) : root \in UNION {Range(snaps[m]) : m \in DOMAIN snaps},
                     r \in relative_paths}

\* no recursive search runs beside a lookup
NoSearch ==
    /\ pc = "returned"
    /\ queue = <<>>
    /\ item = None
    /\ hangup_closed = FALSE
    /\ skim_rx_dropped = FALSE
    /\ skim = <<>>
    /\ printed = <<>>
    /\ deleted_scope = {}
    /\ processed = <<>>
    /\ entries_partitioned = None

\* the state versions_lookup_exec starts in
Start(config_, stats, paths) ==
    /\ NoSearch
    /\ config = config_
    /\ fs = stats
    /\ path_set = paths
    /\ pending = paths
    /\ display_map = <<>>
    /\ trace = <<>>
    /\ result = [status |-> "pending", map |-> <<>>]

\* one live file of /t, every state of its snapshot copies, every option
Init ==
    \E collection \in TankCollections, omit_ditto \in BOOLEAN,
       last_snap \in OptLastSnap, live \in OptMetadata :
        \E stats \in [SnapshotFiles(collection.map_of_snaps, {<<"f">>}) -> OptMetadata] :
            Start([opt_omit_ditto |-> omit_ditto,
                   opt_last_snap  |-> last_snap,
                   opt_no_snap    |-> FALSE,
                   dataset_collection |-> collection],
                  stats,
                  {[path_buf |-> LiveFile, metadata |-> live]})

Spec == Init /\ [][Next]_vars

\* Datasets at some of /, /t, /t/s and /r, each with two snapshots, and an
\* optional alias map from local dirs to remote dirs
MountCandidates == {<<>>, <<"t">>, <<"t", "s">>, <<"r">>}
LocalDirs == {<<"l">>, <<"l", "p">>, <<"m">>}
RemoteDirs == {<<"r">>, <<"t">>}
ResolvePaths == {<<"t">>, <<"t", "f">>, <<"t", "s", "f">>, <<"r", "f">>,
                 <<"l", "f">>, <<"l", "p", "f">>, <<"m", "f">>, <<"x", "f">>}
Suffixes(path) == {SubSeq(path, i, Len(path)) : i \in 1..(Len(path) + 1)}

\* every snapshot holds every file: the snapshot gives the modify time, the
\* depth of the file the size
ResolveStats(snaps, path) ==
    [file \in SnapshotFiles(snaps, Suffixes(path)) |->
        Some([modify_time |-> IF "1" \in Range(file) THEN PHANTOM_DATE ELSE MaxTime,
              size        |-> IF Len(file) > 5 THEN PHANTOM_SIZE ELSE 10])]

\* one live path, resolved against every such collection
InitResolve ==
    \E mounts \in SUBSET MountCandidates, locals \in SUBSET LocalDirs,
       with_aliases \in BOOLEAN, path \in ResolvePaths, exists \in BOOLEAN :
        \E remotes \in [locals -> RemoteDirs] :
            /\ with_aliases \/ locals = {}
            /\ Start([opt_omit_ditto |-> FALSE,
                      opt_last_snap  |-> None,
                      opt_no_snap    |-> FALSE,
                      dataset_collection |->
                         [map_of_datasets    |-> DatasetsAt(mounts),
                          map_of_snaps       |-> [m \in mounts |-> TwoSnapshots(m)],
                          opt_map_of_alts    |-> None,
                          opt_map_of_aliases |->
                             IF with_aliases
                             THEN Some([l \in locals |-> [remote_dir |-> remotes[l],
                                                          fs_type    |-> "Zfs"]])
                             ELSE None,
                          snaps_selected_for_search |-> "MostProximateOnly"]],
                     ResolveStats([m \in mounts |-> TwoSnapshots(m)], path),
                     {[path_buf |-> path,
                       metadata |-> IF exists
                                    THEN Some([modify_time |-> MaxTime, size |-> 10])
                                    ELSE None]})

SpecResolve == InitResolve /\ [][Next]_vars

\* /t with one snapshot; up to two of three live paths, /x/f outside every dataset
ExecPaths == {<<"t", "f">>, <<"t", "g">>, <<"x", "f">>}
ExecMetadata == {None, Some([modify_time |-> MaxTime, size |-> 10])}

InitExec ==
    \E paths \in SUBSET ExecPaths, omit_ditto \in BOOLEAN, no_snap \in BOOLEAN,
       last_snap \in OptLastSnap :
        \E live \in [paths -> ExecMetadata],
           stats \in [SnapshotFiles((Tank :> OneSnapshot(Tank)), {<<"f">>, <<"g">>})
                        -> ExecMetadata] :
            /\ Cardinality(paths) \in {1, 2}
            /\ Start([opt_omit_ditto |-> omit_ditto,
                      opt_last_snap  |-> last_snap,
                      opt_no_snap    |-> no_snap,
                      dataset_collection |->
                         [map_of_datasets    |-> DatasetsAt({Tank}),
                          map_of_snaps       |-> (Tank :> OneSnapshot(Tank)),
                          opt_map_of_alts    |-> None,
                          opt_map_of_aliases |-> None,
                          snaps_selected_for_search |-> "MostProximateOnly"]],
                     stats,
                     {[path_buf |-> p, metadata |-> live[p]] : p \in paths})

SpecExec == InitExec /\ [][Next]_vars

----------------------------------------------------------------------------
(* Properties of the returned DisplayMap *)

Returned == result.status = "Ok"
Key(pathdata) == MdKey(md_infallible(pathdata))
dataset_collection == config.dataset_collection
SnapshotRoots ==
    UNION {Range(dataset_collection.map_of_snaps[m]) :
              m \in DOMAIN dataset_collection.map_of_snaps}
BeneathSnapshotRoot(path) == \E root \in SnapshotRoots : starts_with(path, root)
\* the places where a sequence of records steps down in (modify_time, size)
Descents(records) ==
    {i \in 1..(Len(records) - 1) : KeyLess(Key(records[i + 1]), Key(records[i]))}

\* C1 (as claimed): in the returned DisplayMap no two snapshot records of one
\* live key have the same (modify_time, size), whatever the inventory and the
\* search strategy.
C1_DedupLaw ==
    Returned =>
        \A live \in DOMAIN result.map :
            \A i, j \in DOMAIN result.map[live] :
                i # j => Key(result.map[live][i]) # Key(result.map[live][j])

C3_Containment ==
    Returned =>
        \A live \in DOMAIN result.map :
            \A i \in DOMAIN result.map[live] :
                BeneathSnapshotRoot(result.map[live][i].path_buf)

\* C3 (amended): every record of a value sequence lies beneath a snapshot root
\* of map_of_snaps, except the live record itself, which is the whole value
\* when the last-snap mode is None or NoDittoInclusive and no snapshot version
\* of the path is left after omit-ditto.
C3_ContainmentButSynthesized ==
    Returned =>
        \A live \in DOMAIN result.map :
            \/ \A i \in DOMAIN result.map[live] :
                   BeneathSnapshotRoot(result.map[live][i].path_buf)
            \/ /\ result.map[live] = <<live>>
               /\ config.opt_last_snap \in {Some("None"), Some("NoDittoInclusive")}
               /\ trace[live].snaps = <<>>

\* C3 witness: a mode that can synthesize returns a record of a snapshot
C3_Witness ==
    /\ Returned
    /\ config.opt_last_snap = Some("NoDittoInclusive")
    /\ \E live \in DOMAIN result.map :
        /\ result.map[live] # <<>>
        /\ BeneathSnapshotRoot(result.map[live][1].path_buf)

\* C8: with omit_ditto no record left for a live key has the (modify_time,
\* size) of the live path and every version found that differs from it is
\* left, in the order found; without omit_ditto every version found is left;
\* and what is left is the key's value when no last-snap mode reduces it.
C8_OmitDitto ==
    \A live \in DOMAIN display_map :
        LET found == trace[live].versions
            left  == trace[live].snaps
            differs(v) == Key(v) # Key(live)
        IN  /\ config.opt_omit_ditto =>
                /\ \A i \in DOMAIN left : differs(left[i])
                /\ \A i \in DOMAIN found : differs(found[i]) => found[i] \in Range(left)
                /\ Len(left) = Cardinality({i \in DOMAIN found : differs(found[i])})
            /\ ~config.opt_omit_ditto => left = found
            /\ config.opt_last_snap = None => display_map[live] = left

\* C8 witness: two versions found, the newer a ditto of the live file, and
\* omit_ditto leaves the older one alone (scenario S1)
C8_Witness ==
    /\ config.opt_omit_ditto
    /\ config.opt_last_snap = None
    /\ \E live \in DOMAIN display_map :
        /\ live.metadata # None
        /\ Len(trace[live].versions) = 2
        /\ Key(trace[live].versions[2]) = Key(live)
        /\ display_map[live] = <<trace[live].versions[1]>>

\* C9: the last-snap reduction of the versions left for a live record L.  Any:
\* [last] if there is one, else empty.  DittoOnly: [last] iff there is one and
\* meta(last) = meta(L), else empty.  NoDittoExclusive: [last] iff there is one
\* and meta(last) # meta(L), else empty.  NoDittoInclusive: [last] iff there is
\* one and meta(last) # meta(L), [L] when there is none, empty otherwise.
C9_LastSnap ==
    \A live \in DOMAIN display_map :
        LET snaps == trace[live].snaps
            value == display_map[live]
            last  == snaps[Len(snaps)]
            ditto == Key(last) = Key(live)
        IN  /\ config.opt_last_snap = Some("Any") =>
                value = IF snaps # <<>> THEN <<last>> ELSE <<>>
            /\ config.opt_last_snap = Some("DittoOnly") =>
                value = IF snaps # <<>> /\ ditto THEN <<last>> ELSE <<>>
            /\ config.opt_last_snap = Some("NoDittoExclusive") =>
                value = IF snaps # <<>> /\ ~ditto THEN <<last>> ELSE <<>>
            /\ config.opt_last_snap = Some("NoDittoInclusive") =>
                value = IF snaps = <<>> THEN <<live>>
                        ELSE IF ~ditto THEN <<last>> ELSE <<>>

\* C9 witness: DittoOnly keeps the last of several versions, a ditto of the
\* live file
C9_Witness ==
    /\ config.opt_last_snap = Some("DittoOnly")
    /\ \E live \in DOMAIN display_map :
        /\ Len(trace[live].snaps) >= 2
        /\ display_map[live] = <<trace[live].snaps[Len(trace[live].snaps)]>>
        /\ Key(display_map[live][1]) = Key(live)

\* C10 (as claimed): in last-snap mode None the value of a live record L is
\* [L] when it has no version and the full sequence of its versions otherwise.
C10_NoneKeepsAll ==
    \A live \in DOMAIN display_map :
        config.opt_last_snap = Some("None") =>
            display_map[live] = IF trace[live].snaps = <<>>
                                THEN <<live>>
                                ELSE trace[live].snaps

\* C10 (amended): in last-snap mode None the value of a live record L is [L]
\* when it has no version and empty otherwise; the full sequence is the value
\* only when no last-snap mode is set, and then an empty sequence stays empty.
C10_NoneMode ==
    \A live \in DOMAIN display_map :
        /\ config.opt_last_snap = Some("None") =>
            display_map[live] = IF trace[live].snaps = <<>> THEN <<live>> ELSE <<>>
        /\ config.opt_last_snap = None => display_map[live] = trace[live].snaps

\* C10 witness: mode None, versions found, an empty value
C10_Witness ==
    /\ config.opt_last_snap = Some("None")
    /\ \E live \in DOMAIN display_map :
        /\ trace[live].snaps # <<>>
        /\ display_map[live] = <<>>

----------------------------------------------------------------------------
(* Properties of the resolvers *)

opt_map_of_aliases == dataset_collection.opt_map_of_aliases
Longest(paths) == CHOOSE p \in paths : \A q \in paths : Len(q) <= Len(p)
\* the dataset mounts, and the alias keys, that are ancestors of a path (itself included)
DatasetAncestors(path) ==
    {m \in DOMAIN dataset_collection.map_of_datasets : starts_with(path, m)}
AliasAncestors(path) ==
    IF opt_map_of_aliases = None THEN {}
    ELSE {l \in DOMAIN opt_map_of_aliases[1] : starts_with(path, l)}
\* what MostProximateAndOptAlts::new returned for the dataset type MostProximate
Proximate(live) == trace[live].proximity[Len(trace[live].proximity)]

\* C4: for a path with no alias match the proximate mount is the longest key
\* of the datasets map that is a prefix of the path (the path itself
\* included), and the resolution is an error if there is none.
C4_MostProximate ==
    \A live \in DOMAIN trace :
        AliasAncestors(live.path_buf) = {} =>
            IF DatasetAncestors(live.path_buf) = {}
            THEN ~Proximate(live).ok
            ELSE /\ Proximate(live).ok
                 /\ Proximate(live).val.proximate_dataset_mount
                        = Longest(DatasetAncestors(live.path_buf))

\* C4 witness: / and /t are datasets and /t/s/f resolves to /t (scenario S5)
C4_Witness ==
    \E live \in DOMAIN trace :
        /\ live.path_buf = <<"t", "s", "f">>
        /\ DatasetAncestors(live.path_buf) = {<<>>, <<"t">>}
        /\ AliasAncestors(live.path_buf) = {}
        /\ Proximate(live).ok
        /\ Proximate(live).val.proximate_dataset_mount = <<"t">>

\* C5: when some ancestor of the path (itself included) is an alias key, the
\* proximate mount is the remote_dir of the nearest such key, whatever the
\* datasets map holds; without one it is what the datasets map alone gives.
C5_AliasPrecedence ==
    \A live \in DOMAIN trace :
        IF AliasAncestors(live.path_buf) # {}
        THEN /\ Proximate(live).ok
             /\ Proximate(live).val.proximate_dataset_mount
                    = opt_map_of_aliases[1][Longest(AliasAncestors(live.path_buf))].remote_dir
        ELSE Proximate(live).ok <=> DatasetAncestors(live.path_buf) # {}

\* C5 witness: /l/p/f lies under the alias keys /l and /l/p, of different
\* remote dirs, and under a dataset, and resolves to the remote dir of /l/p
C5_Witness ==
    \E live \in DOMAIN trace :
        /\ AliasAncestors(live.path_buf) = {<<"l">>, <<"l", "p">>}
        /\ DatasetAncestors(live.path_buf) # {}
        /\ opt_map_of_aliases[1][<<"l">>].remote_dir
               # opt_map_of_aliases[1][<<"l", "p">>].remote_dir
        /\ Proximate(live).val.proximate_dataset_mount
               = opt_map_of_aliases[1][<<"l", "p">>].remote_dir

\* C6 (as claimed): for a path L/x whose nearest alias key is L, of remote dir
\* R with snapshots, the one search bundle has the relative path x and the
\* snapshot roots of R, for every alias map.
C6_AliasTransparency ==
    \A live \in DOMAIN trace :
        AliasAncestors(live.path_buf) # {} =>
            LET local_dir  == Longest(AliasAncestors(live.path_buf))
                remote_dir == opt_map_of_aliases[1][local_dir].remote_dir
            IN  remote_dir \in DOMAIN dataset_collection.map_of_snaps =>
                    trace[live].search_bundles =
                        <<[relative_path |-> strip_prefix(live.path_buf, local_dir).val,
                           snap_mounts   |-> dataset_collection.map_of_snaps[remote_dir]]>>

\* C7: versions_lookup_exec fails exactly when every live key of the map is
\* phantom, every value sequence is empty and no_snap is off; otherwise it
\* returns the map DisplayMap::new built, a value for each path of path_set.
C7_NoCopiesFound ==
    result.status # "pending" =>
        /\ DOMAIN display_map = path_set
        /\ result.status = "Err" <=>
              /\ \A live \in path_set : live.metadata = None
              /\ \A live \in path_set : display_map[live] = <<>>
              /\ ~config.opt_no_snap
        /\ result.status = "Ok" => result.map = display_map

\* C7 witness: the lookup returns a map in which one key is phantom with no
\* version, though no_snap is off
C7_Witness ==
    /\ result.status = "Ok"
    /\ ~config.opt_no_snap
    /\ Cardinality(DOMAIN result.map) = 2
    /\ \E live \in DOMAIN result.map :
           live.metadata = None /\ result.map[live] = <<>>

----------------------------------------------------------------------------
(* Properties of the parallel pipeline *)

snaps_selected_for_search == dataset_collection.snaps_selected_for_search
\* the value DisplayMap::new gives a live path under a configuration and a schedule
ValueUnder(config_, live, schedule) ==
    reduce(config_, live, snaps_of(config_, live, schedule).snaps)

C17_NoPhantomValues ==
    \A live \in DOMAIN display_map :
        \A i \in DOMAIN display_map[live] : display_map[live][i].metadata # None

\* C17 (amended): every record of a value sequence carries the metadata of a
\* successful stat, except the phantom live record itself, which is the whole
\* value of a phantom live path when the last-snap mode is None or
\* NoDittoInclusive and no snapshot version is left after omit-ditto.
C17_NoPhantomSnapshotValues ==
    \A live \in DOMAIN display_map :
        \/ \A i \in DOMAIN display_map[live] : display_map[live][i].metadata # None
        \/ /\ display_map[live] = <<live>>
           /\ live.metadata = None
           /\ config.opt_last_snap \in {Some("None"), Some("NoDittoInclusive")}
           /\ trace[live].snaps = <<>>

\* C17 witness: a phantom live path in a synthesizing mode, one snapshot
\* without the file, and a value that is the record of the other snapshot
C17_Witness ==
    /\ config.opt_last_snap = Some("NoDittoInclusive")
    /\ \E live \in DOMAIN display_map :
        /\ live.metadata = None
        /\ \E path \in DOMAIN fs : fs[path] = None
        /\ Len(display_map[live]) = 1
        /\ display_map[live][1].metadata # None
        /\ BeneathSnapshotRoot(display_map[live][1].path_buf)

\* C18 (as claimed): a path with no ancestor in the datasets map and no alias
\* match is not a live key of the returned map: its lookup fails.
C18_NoQualifyingDataset ==
    Returned =>
        \A live \in DOMAIN result.map :
            DatasetAncestors(live.path_buf) # {} \/ AliasAncestors(live.path_buf) # {}

\* the same configuration with the search strategy MostProximateOnly
ProximateOnly(config_) ==
    [config_ EXCEPT !.dataset_collection.snaps_selected_for_search = "MostProximateOnly"]
NoAltsFor(live) ==
    /\ snaps_selected_for_search = "IncludeAltReplicated"
    /\ Proximate(live).ok
    /\ Proximate(live).val.proximate_dataset_mount
           \notin DOMAIN dataset_collection.opt_map_of_alts[1]

\* C19: with IncludeAltReplicated a path whose proximate mount has no entry in
\* the map of alts gets the value the lookup gives it under MostProximateOnly,
\* and the lookup returns what it returns under MostProximateOnly.
C19_MissingAlts ==
    /\ \A live \in DOMAIN display_map :
           NoAltsFor(live) =>
               \A schedule \in Schedules(ProximateOnly(config)) :
                   display_map[live] = ValueUnder(ProximateOnly(config), live, schedule)
    /\ (result.status # "pending" /\ \A live \in DOMAIN display_map : NoAltsFor(live)) =>
           result = versions_lookup_exec(ProximateOnly(config), display_map)

\* C19 witness: no entry in the map of alts, and both snapshot versions of the
\* proximate dataset returned
C19_Witness ==
    /\ Returned
    /\ \E live \in DOMAIN result.map :
        /\ NoAltsFor(live)
        /\ Len(result.map[live]) = 2

\* the snapshot roots of the proximate dataset of a live path, and of its alternates
ProximateRoots(live) ==
    LET mount == Proximate(live).val.proximate_dataset_mount
    IN  IF mount \in DOMAIN dataset_collection.map_of_snaps
        THEN Range(dataset_collection.map_of_snaps[mount]) ELSE {}
AlternateRoots(live) ==
    LET mount == Proximate(live).val.proximate_dataset_mount
        map_of_alts == dataset_collection.opt_map_of_alts[1]
    IN  IF mount \in DOMAIN map_of_alts
        THEN UNION {Range(dataset_collection.map_of_snaps[alt]) :
                       alt \in Range(map_of_alts[mount].opt_datasets_of_interest[1])
                               \cap DOMAIN dataset_collection.map_of_snaps}
        ELSE {}
FoundOn(record, roots) == \E root \in roots : starts_with(record.path_buf, root)

\* C20: with IncludeAltReplicated, in the value of every live key every
\* version found on an alternate dataset comes before every version found on
\* the proximate dataset, in whatever order the parallel work finishes.
C20_AlternatesFirst ==
    \A live \in DOMAIN display_map :
        (snaps_selected_for_search = "IncludeAltReplicated" /\ Proximate(live).ok) =>
            \A i, j \in DOMAIN display_map[live] :
                (/\ FoundOn(display_map[live][i], AlternateRoots(live))
                 /\ FoundOn(display_map[live][j], ProximateRoots(live))) => i < j

\* C20 witness: a value of three records, the first on an alternate, the last
\* on the proximate dataset
C20_Witness ==
    /\ snaps_selected_for_search = "IncludeAltReplicated"
    /\ \E live \in DOMAIN display_map :
        /\ Len(display_map[live]) = 3
        /\ FoundOn(display_map[live][1], AlternateRoots(live))
        /\ FoundOn(display_map[live][3], ProximateRoots(live))

\* the versions of a live path that snapshots of its alternates with an
\* entry in the map of snaps hold
AlternateVersions(live) ==
    LET mount == Proximate(live).val.proximate_dataset_mount
        relative_path == strip_prefix(live.path_buf, mount).val
    IN  {pathdata \in {PathData_from(join(root, relative_path)) :
                          root \in AlternateRoots(live)} : pathdata.metadata # None}

\* C28 (as claimed): with several datasets of interest in the alternates of a
\* path, one of them without an entry in the map of snaps, every version that
\* a snapshot of another dataset of interest holds is in the value of the
\* path (no version is omitted as a ditto, no last-snap reduction).
C28_MissingSnapsNotSuppressing ==
    \A live \in DOMAIN display_map :
        (/\ snaps_selected_for_search = "IncludeAltReplicated"
         /\ Proximate(live).ok
         /\ ~config.opt_omit_ditto
         /\ config.opt_last_snap = None) =>
            \A version \in AlternateVersions(live) :
                \E i \in DOMAIN display_map[live] :
                    display_map[live][i].path_buf = version.path_buf

\* C21: omit-ditto comes before the last-snap reduction: with a last-snap
\* mode the value of a live key is made from the last of the versions found
\* that are no ditto of the live path, when omit_ditto is set, and from the
\* last of all versions found otherwise.
C21_OmitBeforeLastSnap ==
    \A live \in DOMAIN display_map :
        LET found     == trace[live].versions
            non_ditto == SelectSeq(found, LAMBDA v : Key(v) # Key(live))
            examined  == IF config.opt_omit_ditto THEN non_ditto ELSE found
            value     == display_map[live]
        IN  config.opt_last_snap # None =>
                /\ \A i \in DOMAIN value :
                       \/ value[i] = live
                       \/ examined # <<>> /\ value[i] = examined[Len(examined)]
                /\ config.opt_last_snap = Some("Any") =>
                       value = IF examined = <<>> THEN <<>>
                               ELSE <<examined[Len(examined)]>>
                /\ (config.opt_omit_ditto /\ non_ditto # <<>>
                        /\ config.opt_last_snap \in {Some("NoDittoExclusive"),
                                                     Some("NoDittoInclusive")}) =>
                       value = <<non_ditto[Len(non_ditto)]>>
                /\ (config.opt_omit_ditto /\ config.opt_last_snap = Some("DittoOnly")) =>
                       value = <<>>

\* C21 witness: omit_ditto and mode Any, two versions found, the last a ditto
\* of the live file: the value is the first
C21_Witness ==
    /\ config.opt_omit_ditto
    /\ config.opt_last_snap = Some("Any")
    /\ \E live \in DOMAIN display_map :
        /\ Len(trace[live].versions) = 2
        /\ Key(trace[live].versions[2]) = Key(live)
        /\ Key(trace[live].versions[1]) # Key(live)
        /\ display_map[live] = <<trace[live].versions[1]>>

----------------------------------------------------------------------------
(* The recursive enumeration of src/src/exec/recursive.rs.  Here fs gives,  *)
(* for every path that exists, its file type and, for a directory, whether  *)
(* read_dir succeeds on it and the names read_dir yields, in that order.    *)

ZFS_HIDDEN_DIRECTORY == ".zfs"
BTRFS_SNAPPER_HIDDEN_DIRECTORY == ".snapshots"

\* the names that begin with a '.'
HiddenNames == {".h", ZFS_HIDDEN_DIRECTORY, BTRFS_SNAPPER_HIDDEN_DIRECTORY}

file_name(path) == path[Len(path)]
parent(path) == SubSeq(path, 1, Len(path) - 1)
\* Path::components().count() of an absolute path: the root and each name
components_count(path) == Len(path) + 1

\* Path resolution by the operating system: the components are walked from
\* the root, the target of a symbolic link takes the place of the link, and
\* the resolution fails on a missing component or once more than MaxSymlinks
\* links have been followed (ELOOP)
RECURSIVE resolve(_, _, _)
resolve(resolved, rest, followed) ==
    IF rest = <<>> THEN Ok(resolved)
    ELSE LET next == resolved \o <<Head(rest)>>
         IN  IF next \notin DOMAIN fs THEN Err
             ELSE IF fs[next].file_type = "symlink"
             THEN IF followed >= MaxSymlinks THEN Err
                  ELSE resolve(<<>>, fs[next].target \o Tail(rest), followed + 1)
             ELSE resolve(next, Tail(rest), followed)

\* Path::canonicalize
canonicalize(path) == resolve(<<>>, path, 0)

\* Path::is_dir of a canonical path
is_dir(path) == path \in DOMAIN fs /\ fs[path].file_type = "dir"

\* BasicDirEntryInfo::from(&DirEntry): the path under the directory as it was
\* asked for, the file type of the entry itself (a link is not followed)
BasicDirEntryInfo_from(dir, canonical_dir, name) ==
    [path |-> join(dir, <<name>>),
     file_type |-> Some(fs[join(canonical_dir, <<name>>)].file_type)]

\* std::fs::read_dir, flattened
read_dir(dir) ==
    LET canonical_dir == canonicalize(dir)
    IN  IF canonical_dir.ok /\ is_dir(canonical_dir.val) /\ fs[canonical_dir.val].readable
        THEN Ok([i \in DOMAIN fs[canonical_dir.val].entries |->
                    BasicDirEntryInfo_from(dir, canonical_dir.val,
                                           fs[canonical_dir.val].entries[i])])
        ELSE Err

\* BasicDirEntryInfo::get_filetype
get_filetype(entry) == IF entry.file_type = None THEN Err ELSE Ok(entry.file_type[1])

\* the link arm of httm_is_dir for a link target
link_is_dir(path, link_target) ==
    IF ~link_target.ok THEN FALSE
    ELSE IF ~is_dir(link_target.val) THEN FALSE
    ELSE \A i \in DOMAIN ancestors(path) : ancestors(path)[i] # link_target.val

\* httm_is_dir
httm_is_dir(entry) ==
    LET file_type == get_filetype(entry)
    IN  IF file_type.ok
        THEN CASE file_type.val = "dir"     -> TRUE
               [] file_type.val = "file"    -> FALSE
               [] file_type.val = "symlink" -> link_is_dir(entry.path, canonicalize(entry.path))
               [] OTHER -> FALSE
        ELSE FALSE

\* SharedRecursive::is_entry_dir
is_entry_dir(config_, entry) ==
    IF config_.opt_no_traverse /\ get_filetype(entry).ok
    THEN get_filetype(entry).val = "dir"
    ELSE httm_is_dir(entry)

\* MaxLen::get_max_len of the filter dirs: the largest component count
get_max_len(filter_dirs) ==
    IF filter_dirs = {} THEN 0 ELSE Max({components_count(dir) : dir \in filter_dirs})

\* an is_filter_dir whose bailout compares the wrong way round
is_filter_dir_bailout_below(config_, entry) ==
    LET path == entry.path
        dc   == config_.dataset_collection
    IN  IF file_name(path) \in {ZFS_HIDDEN_DIRECTORY, BTRFS_SNAPPER_HIDDEN_DIRECTORY}
        THEN TRUE
        ELSE IF dc.opt_common_snap_dir # None /\ path = dc.opt_common_snap_dir[1]
        THEN TRUE
        ELSE IF config_.opt_requested_dir # None
                /\ config_.opt_requested_dir[1].path_buf = path
        THEN FALSE
        ELSE IF components_count(path) < get_max_len(dc.filter_dirs)
        THEN FALSE
        ELSE path \in dc.filter_dirs

\* an is_filter_dir that looks for the requested directory first
is_filter_dir_requested_first(config_, entry) ==
    LET path == entry.path
        dc   == config_.dataset_collection
    IN  IF config_.opt_requested_dir # None
           /\ config_.opt_requested_dir[1].path_buf = path
        THEN FALSE
        ELSE IF file_name(path) \in {ZFS_HIDDEN_DIRECTORY, BTRFS_SNAPPER_HIDDEN_DIRECTORY}
        THEN TRUE
        ELSE IF dc.opt_common_snap_dir # None /\ path = dc.opt_common_snap_dir[1]
        THEN TRUE
        ELSE IF components_count(path) > get_max_len(dc.filter_dirs)
        THEN FALSE
        ELSE path \in dc.filter_dirs

\* SharedRecursive::is_filter_dir
is_filter_dir(config_, entry) ==
    LET path == entry.path
        dc   == config_.dataset_collection
    IN  IF file_name(path) \in {ZFS_HIDDEN_DIRECTORY, BTRFS_SNAPPER_HIDDEN_DIRECTORY}
        THEN TRUE
        ELSE IF dc.opt_common_snap_dir # None /\ path = dc.opt_common_snap_dir[1]
        THEN TRUE
        ELSE IF config_.opt_requested_dir # None
                /\ config_.opt_requested_dir[1].path_buf = path
        THEN FALSE
        ELSE IF components_count(path) > get_max_len(dc.filter_dirs)
        THEN FALSE
        ELSE path \in dc.filter_dirs

\* the filter closure of get_entries_partitioned
entry_passes(config_, entry) ==
    IF config_.opt_no_filter THEN TRUE
    ELSE IF config_.opt_no_hidden /\ file_name(entry.path) \in HiddenNames THEN FALSE
    ELSE IF get_filetype(entry).ok /\ get_filetype(entry).val = "dir"
    THEN ~is_filter_dir(config_, entry)
    ELSE TRUE

\* SharedRecursive::get_entries_partitioned
get_entries_partitioned(config_, requested_dir) ==
    LET entries == read_dir(requested_dir)
    IN  IF ~entries.ok THEN Err
        ELSE LET passed == SelectSeq(entries.val, LAMBDA e : entry_passes(config_, e))
             IN  Ok([vec_dirs  |-> SelectSeq(passed, LAMBDA e : is_entry_dir(config_, e)),
                     vec_files |-> SelectSeq(passed, LAMBDA e : ~is_entry_dir(config_, e))])

\* a get_pseudo_live_versions that hands on the entries as they were found
get_pseudo_live_versions_cloned(entries, pseudo_live_dir) == entries

\* SharedRecursive::get_pseudo_live_versions
get_pseudo_live_versions(entries, pseudo_live_dir) ==
    [i \in DOMAIN entries |->
        [path      |-> join(pseudo_live_dir, <<file_name(entries[i].path)>>),
         file_type |-> entries[i].file_type]]

\* SelectionCandidate::new
SelectionCandidate_new(basic_info, is_phantom) ==
    [path |-> basic_info.path, is_phantom |-> is_phantom]

\* What sending or printing entries gave: whether it is Ok, and the items it
\* put on the item channel and on the standard output.
Sent(ok, sent, out) == [ok |-> ok, sent |-> sent, printed |-> out]

\* SharedRecursive::transmit: try_send fails once the receiver is dropped
transmit(entries, is_phantom, rx_dropped) ==
    IF entries = <<>> THEN Sent(TRUE, <<>>, <<>>)
    ELSE IF rx_dropped THEN Sent(FALSE, <<>>, <<>>)
    ELSE Sent(TRUE, [i \in DOMAIN entries |->
                        SelectionCandidate_new(entries[i], is_phantom)], <<>>)

\* SharedRecursive::display_or_transmit
display_or_transmit(config_, entries, is_phantom, rx_dropped) ==
    IF config_.exec_mode = "Interactive"
    THEN transmit(entries, is_phantom, rx_dropped)
    ELSE Sent(TRUE, <<>>, [i \in DOMAIN entries |-> entries[i].path])

\* a combine_and_send_entries that sends the live entries in every deleted mode
combine_and_send_entries_live_always(config_, vec_files, vec_dirs, is_phantom, requested_dir, rx_dropped) ==
    LET combined == vec_files \o vec_dirs
    IN  IF is_phantom
        THEN display_or_transmit(config_, get_pseudo_live_versions(combined, requested_dir),
                                 is_phantom, rx_dropped)
        ELSE IF config_.exec_mode = "NonInteractiveRecursive"
        THEN Sent(TRUE, <<>>, <<>>)
        ELSE display_or_transmit(config_, combined, is_phantom, rx_dropped)

\* SharedRecursive::combine_and_send_entries
combine_and_send_entries(config_, vec_files, vec_dirs, is_phantom, requested_dir, rx_dropped) ==
    LET combined == vec_files \o vec_dirs
    IN  IF is_phantom
        THEN display_or_transmit(config_, get_pseudo_live_versions(combined, requested_dir),
                                 is_phantom, rx_dropped)
        ELSE IF config_.opt_deleted_mode = Some("Only")
        THEN Sent(TRUE, <<>>, <<>>)
        ELSE IF config_.exec_mode = "NonInteractiveRecursive"
        THEN Sent(TRUE, <<>>, <<>>)
        ELSE display_or_transmit(config_, combined, is_phantom, rx_dropped)

\* the deleted-search task SpawnDeletedThread::exec spawns for a directory
SpawnDeletedThread_exec(requested_dir) ==
    [kind |-> "enumerate_deleted", requested_dir |-> requested_dir]

\* What RecursiveMainLoop::new gave: Ok(vec_dirs) or an Err, what it sent, and
\* the deleted-search tasks it spawned.
Entered(ok, vec_dirs, sending, spawned) ==
    [ok |-> ok, vec_dirs |-> vec_dirs, sent |-> sending.sent,
     printed |-> sending.printed, spawned |-> spawned]

\* a RecursiveMainLoop::new that spawns the deleted search only for a
\* directory with directories in it
RecursiveMainLoop_new_no_deleted_in_leaf(config_, requested_dir, rx_dropped) ==
    LET partitioned == get_entries_partitioned(config_, requested_dir)
    IN  IF ~partitioned.ok THEN Entered(FALSE, <<>>, Sent(FALSE, <<>>, <<>>), {})
        ELSE LET sending == combine_and_send_entries(config_, partitioned.val.vec_files,
                                partitioned.val.vec_dirs, FALSE, requested_dir, rx_dropped)
             IN  IF ~sending.ok THEN Entered(FALSE, <<>>, sending, {})
                 ELSE Entered(TRUE, partitioned.val.vec_dirs, sending,
                              IF config_.opt_deleted_mode # None
                                 /\ partitioned.val.vec_dirs # <<>>
                              THEN {SpawnDeletedThread_exec(requested_dir)}
                              ELSE {})

\* RecursiveMainLoop::new: the deleted scope is there iff a deleted mode is set
RecursiveMainLoop_new(config_, requested_dir, rx_dropped) ==
    LET partitioned == get_entries_partitioned(config_, requested_dir)
    IN  IF ~partitioned.ok THEN Entered(FALSE, <<>>, Sent(FALSE, <<>>, <<>>), {})
        ELSE LET sending == combine_and_send_entries(config_, partitioned.val.vec_files,
                                partitioned.val.vec_dirs, FALSE, requested_dir, rx_dropped)
             IN  IF ~sending.ok THEN Entered(FALSE, <<>>, sending, {})
                 ELSE Entered(TRUE, partitioned.val.vec_dirs, sending,
                              IF config_.opt_deleted_mode # None
                              THEN {SpawnDeletedThread_exec(requested_dir)}
                              ELSE {})

\* the entries of a sequence whose name no earlier entry has
RECURSIVE unique_by_name(_, _)
unique_by_name(entries, seen) ==
    IF entries = <<>> THEN <<>>
    ELSE IF file_name(Head(entries).path) \in seen
    THEN unique_by_name(Tail(entries), seen)
    ELSE <<Head(entries)>>
             \o unique_by_name(Tail(entries), seen \cup {file_name(Head(entries).path)})

\* get_unique_deleted: what the snapshot roots of the directory's proximate
\* dataset hold at its relative path and the live directory does not, one
\* entry for each name, the first found
get_unique_deleted(config_, requested_dir) ==
    LET pathdata == [path_buf |-> requested_dir, metadata |-> None]
        mount    == proximate_dataset_mount(config_, pathdata)
        bundle   == IF mount.ok
                    THEN RelativePathAndSnapMounts_new(config_, pathdata, mount.val, mount.val)
                    ELSE Err
    IN  IF ~bundle.ok THEN Err
        ELSE LET snap_dirs == [i \in DOMAIN bundle.val.snap_mounts |->
                                  read_dir(join(bundle.val.snap_mounts[i],
                                                bundle.val.relative_path))]
                 on_snaps  == Flatten(SelectOk(snap_dirs))
                 deleted   == SelectSeq(on_snaps, LAMBDA e :
                                  join(requested_dir, <<file_name(e.path)>>) \notin DOMAIN fs)
             IN  Ok(unique_by_name(deleted, {}))

\* What a deleted-search task gave: what it sent and the tasks it spawned
Searched(sending, spawned) ==
    [sent |-> sending.sent, printed |-> sending.printed, spawned |-> spawned]

\* the task that descends into a deleted directory
behind_deleted_dir_task(dir_name, from_deleted_dir, from_requested_dir) ==
    [kind |-> "behind_deleted_dir", dir_name |-> dir_name,
     from_deleted_dir |-> from_deleted_dir, from_requested_dir |-> from_requested_dir]

\* The deleted search of a directory, with the steps of enumerate_deleted of
\* src/src/recursive.rs: the unique deleted entries are sent through
\* combine_and_send_entries as phantom entries of that directory, and unless the mode is DepthOfOne a
\* task is spawned behind each deleted directory
enumerate_deleted(config_, requested_dir, rx_dropped) ==
    LET deleted == get_unique_deleted(config_, requested_dir)
    IN  IF ~deleted.ok THEN Searched(Sent(TRUE, <<>>, <<>>), {})
        ELSE LET vec_dirs  == SelectSeq(deleted.val, httm_is_dir)
                 vec_files == SelectSeq(deleted.val, LAMBDA e : ~httm_is_dir(e))
             IN  Searched(combine_and_send_entries(config_, vec_files, vec_dirs, TRUE,
                                                   requested_dir, rx_dropped),
                          IF config_.opt_deleted_mode # Some("DepthOfOne")
                          THEN {behind_deleted_dir_task(file_name(vec_dirs[i].path),
                                                        parent(vec_dirs[i].path),
                                                        requested_dir) :
                                   i \in DOMAIN vec_dirs}
                          ELSE {})

\* recurse_behind_deleted_dir: the entries of the deleted directory on the
\* snapshot are sent as phantom entries of the pseudo live directory, and the
\* recursion goes on behind each of its directories
recurse_behind_deleted_dir(config_, dir_name, from_deleted_dir, from_requested_dir, rx_dropped) ==
    LET deleted_dir_on_snap == join(from_deleted_dir, <<dir_name>>)
        pseudo_live_dir     == join(from_requested_dir, <<dir_name>>)
        entries             == read_dir(deleted_dir_on_snap)
    IN  IF ~entries.ok THEN Searched(Sent(TRUE, <<>>, <<>>), {})
        ELSE LET vec_dirs  == SelectSeq(entries.val, httm_is_dir)
                 vec_files == SelectSeq(entries.val, LAMBDA e : ~httm_is_dir(e))
             IN  Searched(display_or_transmit(config_,
                              get_pseudo_live_versions(vec_files \o vec_dirs, pseudo_live_dir),
                              TRUE, rx_dropped),
                          {behind_deleted_dir_task(file_name(vec_dirs[i].path),
                                                   deleted_dir_on_snap, pseudo_live_dir) :
                              i \in DOMAIN vec_dirs})

----------------------------------------------------------------------------
(* The actions of a recursive search *)

\* Receiver<Never>::try_recv: nothing is ever sent on the hangup channel
try_recv(sender_dropped) == IF sender_dropped THEN "Disconnected" ELSE "Empty"

\* an is_channel_closed that takes an empty channel for a closed one
is_channel_closed_when_empty(sender_dropped) ==
    try_recv(sender_dropped) \in {"Disconnected", "Empty"}

\* is_channel_closed
is_channel_closed(sender_dropped) == try_recv(sender_dropped) = "Disconnected"

requested_dir == config.opt_requested_dir[1].path_buf
paths_of(entries) == [i \in DOMAIN entries |-> entries[i].path]
Running == pc \notin {"returned", "exit"}

\* RecursiveMainLoop::exec primes the queue with the requested directory; an
\* error here trickles up to run_enumerate_loop, which prints it and exits
EnterRequestedDir ==
    /\ pc = "start"
    /\ \E entered \in {RecursiveMainLoop_new(config, requested_dir, skim_rx_dropped)} :
           /\ processed' = Append(processed, [path |-> requested_dir,
                                              closed |-> hangup_closed,
                                              ok |-> entered.ok])
           /\ skim' = skim \o entered.sent
           /\ printed' = printed \o entered.printed
           /\ deleted_scope' = deleted_scope \cup entered.spawned
           /\ queue' = paths_of(entered.vec_dirs)
           /\ pc' = IF ~entered.ok THEN "exit"
                    ELSE IF config.opt_recursive THEN "loop" ELSE "scope"
    /\ UNCHANGED <<config, fs, item, hangup_closed, skim_rx_dropped>>
    /\ UNCHANGED <<lookup_vars, entries_partitioned>>

\* a loop that takes the directory at the front of the queue
Pop_front ==
    /\ pc = "loop"
    /\ IF queue = <<>>
       THEN pc' = "scope" /\ UNCHANGED <<queue, item>>
       ELSE /\ item' = Some(Head(queue))
            /\ queue' = Tail(queue)
            /\ pc' = IF is_channel_closed(hangup_closed) THEN "scope" ELSE "checked"
    /\ UNCHANGED <<config, fs, hangup_closed, skim_rx_dropped, skim, printed,
                   deleted_scope, processed>>
    /\ UNCHANGED <<lookup_vars, entries_partitioned>>

\* a loop that pops and never looks at the hangup channel
Pop_unchecked ==
    /\ pc = "loop"
    /\ IF queue = <<>>
       THEN pc' = "scope" /\ UNCHANGED <<queue, item>>
       ELSE /\ item' = Some(queue[Len(queue)])
            /\ queue' = SubSeq(queue, 1, Len(queue) - 1)
            /\ pc' = "checked"
    /\ UNCHANGED <<config, fs, hangup_closed, skim_rx_dropped, skim, printed,
                   deleted_scope, processed>>
    /\ UNCHANGED <<lookup_vars, entries_partitioned>>

\* a loop that does not end on an empty queue
Pop_spin ==
    /\ pc = "loop"
    /\ IF queue = <<>>
       THEN UNCHANGED <<pc, queue, item>>
       ELSE /\ item' = Some(queue[Len(queue)])
            /\ queue' = SubSeq(queue, 1, Len(queue) - 1)
            /\ pc' = IF is_channel_closed(hangup_closed) THEN "scope" ELSE "checked"
    /\ UNCHANGED <<config, fs, hangup_closed, skim_rx_dropped, skim, printed,
                   deleted_scope, processed>>
    /\ UNCHANGED <<lookup_vars, entries_partitioned>>

\* the top of the while loop: pop the last directory of the queue, and break
\* when the hangup channel is closed
Pop ==
    /\ pc = "loop"
    /\ IF queue = <<>>
       THEN pc' = "scope" /\ UNCHANGED <<queue, item>>
       ELSE /\ item' = Some(queue[Len(queue)])
            /\ queue' = SubSeq(queue, 1, Len(queue) - 1)
            /\ pc' = IF is_channel_closed(hangup_closed) THEN "scope" ELSE "checked"
    /\ UNCHANGED <<config, fs, hangup_closed, skim_rx_dropped, skim, printed,
                   deleted_scope, processed>>
    /\ UNCHANGED <<lookup_vars, entries_partitioned>>

\* a loop body whose items overtake the items sent before them
EnterDir_overtaking ==
    /\ pc = "checked"
    /\ \E entered \in {RecursiveMainLoop_new(config, item[1], skim_rx_dropped)} :
           /\ processed' = Append(processed, [path |-> item[1],
                                              closed |-> hangup_closed,
                                              ok |-> entered.ok])
           /\ skim' = entered.sent \o skim
           /\ printed' = printed \o entered.printed
           /\ deleted_scope' = deleted_scope \cup entered.spawned
           /\ queue' = IF entered.ok THEN queue \o paths_of(entered.vec_dirs) ELSE queue
    /\ item' = None
    /\ pc' = "loop"
    /\ UNCHANGED <<config, fs, hangup_closed, skim_rx_dropped>>
    /\ UNCHANGED <<lookup_vars, entries_partitioned>>

\* a loop body that hands an error of the popped directory up with `?`
EnterDir_error_propagated ==
    /\ pc = "checked"
    /\ \E entered \in {RecursiveMainLoop_new(config, item[1], skim_rx_dropped)} :
           /\ processed' = Append(processed, [path |-> item[1],
                                              closed |-> hangup_closed,
                                              ok |-> entered.ok])
           /\ skim' = skim \o entered.sent
           /\ printed' = printed \o entered.printed
           /\ deleted_scope' = deleted_scope \cup entered.spawned
           /\ queue' = IF entered.ok THEN queue \o paths_of(entered.vec_dirs) ELSE queue
           /\ pc' = IF entered.ok THEN "loop" ELSE "exit"
    /\ item' = None
    /\ UNCHANGED <<config, fs, hangup_closed, skim_rx_dropped>>
    /\ UNCHANGED <<lookup_vars, entries_partitioned>>

\* the body of the while loop: the popped directory is entered, and an error
\* is dropped
EnterDir ==
    /\ pc = "checked"
    /\ \E entered \in {RecursiveMainLoop_new(config, item[1], skim_rx_dropped)} :
           /\ processed' = Append(processed, [path |-> item[1],
                                              closed |-> hangup_closed,
                                              ok |-> entered.ok])
           /\ skim' = skim \o entered.sent
           /\ printed' = printed \o entered.printed
           /\ deleted_scope' = deleted_scope \cup entered.spawned
           /\ queue' = IF entered.ok THEN queue \o paths_of(entered.vec_dirs) ELSE queue
    /\ item' = None
    /\ pc' = "loop"
    /\ UNCHANGED <<config, fs, hangup_closed, skim_rx_dropped>>
    /\ UNCHANGED <<lookup_vars, entries_partitioned>>

\* a task of the deleted scope runs: the search of a directory polls the
\* hangup channel before its work and does nothing when it is closed
DeletedSearch(task) ==
    /\ pc \in {"loop", "checked", "scope"}
    /\ task \in deleted_scope
    /\ LET searched ==
               IF task.kind = "enumerate_deleted"
               THEN IF is_channel_closed(hangup_closed)
                    THEN Searched(Sent(TRUE, <<>>, <<>>), {})
                    ELSE enumerate_deleted(config, task.requested_dir, skim_rx_dropped)
               ELSE recurse_behind_deleted_dir(config, task.dir_name, task.from_deleted_dir,
                                               task.from_requested_dir, skim_rx_dropped)
       IN  /\ skim' = skim \o searched.sent
           /\ printed' = printed \o searched.printed
           /\ deleted_scope' = (deleted_scope \ {task}) \cup searched.spawned
    /\ UNCHANGED <<config, fs, pc, queue, item, hangup_closed, skim_rx_dropped, processed>>
    /\ UNCHANGED <<lookup_vars, entries_partitioned>>

\* a RecursiveSearch::exec that returns when the live loop has ended
ScopeExit_live_loop_ended ==
    /\ pc = "scope"
    /\ pc' = "returned"
    /\ UNCHANGED <<config, fs, queue, item, hangup_closed, skim_rx_dropped, skim, printed,
                   deleted_scope, processed>>
    /\ UNCHANGED <<lookup_vars, entries_partitioned>>

\* RecursiveSearch::exec returns: in_place_scope waits for the tasks spawned in it
ScopeExit ==
    /\ pc = "scope"
    /\ deleted_scope = {}
    /\ pc' = "returned"
    /\ UNCHANGED <<config, fs, queue, item, hangup_closed, skim_rx_dropped, skim, printed,
                   deleted_scope, processed>>
    /\ UNCHANGED <<lookup_vars, entries_partitioned>>

\* the interactive consumer ends: it drops the sender of the hangup channel
DropHangupSender ==
    /\ Running
    /\ config.exec_mode = "Interactive"
    /\ ~hangup_closed
    /\ hangup_closed' = TRUE
    /\ UNCHANGED <<config, fs, pc, queue, item, skim_rx_dropped, skim, printed,
                   deleted_scope, processed>>
    /\ UNCHANGED <<lookup_vars, entries_partitioned>>

\* and it drops the receiver of the item channel
DropSkimReceiver ==
    /\ Running
    /\ config.exec_mode = "Interactive"
    /\ ~skim_rx_dropped
    /\ skim_rx_dropped' = TRUE
    /\ UNCHANGED <<config, fs, pc, queue, item, hangup_closed, skim, printed,
                   deleted_scope, processed>>
    /\ UNCHANGED <<lookup_vars, entries_partitioned>>

NextRecursive ==
    \/ EnterRequestedDir
    \/ Pop
    \/ EnterDir
    \/ \E task \in deleted_scope : DeletedSearch(task)
    \/ ScopeExit
    \/ DropHangupSender
    \/ DropSkimReceiver

----------------------------------------------------------------------------
(* Directory trees and configurations of a recursive search *)

Dir(names) == [file_type |-> "dir", readable |-> TRUE, entries |-> names]
Unreadable == [file_type |-> "dir", readable |-> FALSE, entries |-> <<>>]
File == [file_type |-> "file", readable |-> FALSE, entries |-> <<>>]
Symlink(target) == [file_type |-> "symlink", readable |-> FALSE, entries |-> <<>>,
                    target |-> target]
Reverse(names) == [i \in DOMAIN names |-> names[Len(names) + 1 - i]]
\* the tree in which read_dir yields the names of every directory the other way round
Reversed(tree) ==
    [path \in DOMAIN tree |-> [tree[path] EXCEPT !.entries = Reverse(tree[path].entries)]]
Files(paths) == [path \in paths |-> File]

Snap1 == snapshot_root(Tank, "1")
Snap2 == snapshot_root(Tank, "2")
HiddenZfs == (Tank \o <<".zfs">> :> Dir(<<"snapshot">>))
                 @@ (Tank \o <<".zfs", "snapshot">> :> Dir(<<"1", "2">>))

\* /t with the directories a, a/c and s; .zfs is among the names of /t when
\* the share lists it, and a/c may be unreadable
WideTree(zfs_listed, c_readable) ==
    (Tank :> Dir(IF zfs_listed THEN <<".h", ".zfs", "a", "f", "s">>
                               ELSE <<".h", "a", "f", "s">>))
        @@ (<<"t", "a">> :> Dir(<<"c", "g">>))
        @@ (<<"t", "a", "c">> :> IF c_readable THEN Dir(<<"h">>) ELSE Unreadable)
        @@ (<<"t", "s">> :> Dir(<<"g">>))
        @@ Files({<<"t", ".h">>, <<"t", "f">>, <<"t", "a", "g">>, <<"t", "a", "c", "h">>,
                  <<"t", "s", "g">>, Snap1 \o <<"f">>})
        @@ HiddenZfs
        @@ (Snap1 :> Dir(<<"f">>)) @@ (Snap2 :> Dir(<<>>))

\* /t with the directory a, and what its two snapshots hold
LiveTree ==
    (Tank :> Dir(<<"a", "f">>)) @@ (<<"t", "a">> :> Dir(<<"g">>))
        @@ Files({<<"t", "f">>, <<"t", "a", "g">>}) @@ HiddenZfs
SnapshotTrees ==
    {\* x deleted from /t and held by both snapshots, the directory d deleted
     \* from /t and z deleted from /t/a
     (Snap1 :> Dir(<<"a", "f", "x">>)) @@ (Snap1 \o <<"a">> :> Dir(<<"g">>))
        @@ (Snap2 :> Dir(<<"a", "d", "f", "x">>)) @@ (Snap2 \o <<"a">> :> Dir(<<"g", "z">>))
        @@ (Snap2 \o <<"d">> :> Dir(<<"y">>))
        @@ Files({Snap1 \o <<"a", "g">>, Snap1 \o <<"f">>, Snap1 \o <<"x">>,
                  Snap2 \o <<"a", "g">>, Snap2 \o <<"a", "z">>, Snap2 \o <<"d", "y">>,
                  Snap2 \o <<"f">>, Snap2 \o <<"x">>}),
     \* the directory d deleted from /t, held by both snapshots, deeper in the first
     (Snap1 :> Dir(<<"d", "f">>)) @@ (Snap1 \o <<"d">> :> Dir(<<"c", "y">>))
        @@ (Snap1 \o <<"d", "c">> :> Dir(<<"h">>))
        @@ (Snap2 :> Dir(<<"d", "x">>)) @@ (Snap2 \o <<"d">> :> Dir(<<"y">>))
        @@ Files({Snap1 \o <<"d", "c", "h">>, Snap1 \o <<"d", "y">>, Snap1 \o <<"f">>,
                  Snap2 \o <<"d", "y">>, Snap2 \o <<"x">>}),
     \* nothing deleted
     (Snap1 :> Dir(<<"a", "f">>)) @@ (Snap1 \o <<"a">> :> Dir(<<"g">>))
        @@ (Snap2 :> Dir(<<"f">>))
        @@ Files({Snap1 \o <<"a", "g">>, Snap1 \o <<"f">>, Snap2 \o <<"f">>})}

FilterDirCandidates == {<<"t", "s">>, <<"t", "a", "c">>}

\* the configuration of a recursive search of /t
SearchConfig(recursive, deleted_mode, exec_mode, no_filter, no_hidden, filter_dirs) ==
    [opt_recursive     |-> recursive,
     opt_deleted_mode  |-> deleted_mode,
     exec_mode         |-> exec_mode,
     opt_no_filter     |-> no_filter,
     opt_no_hidden     |-> no_hidden,
     opt_no_traverse   |-> FALSE,
     opt_requested_dir |-> Some([path_buf |-> Tank, metadata |-> None]),
     dataset_collection |->
        [map_of_datasets     |-> DatasetsAt({Tank}),
         map_of_snaps        |-> (Tank :> TwoSnapshots(Tank)),
         opt_map_of_alts     |-> None,
         opt_map_of_aliases  |-> None,
         filter_dirs         |-> filter_dirs,
         opt_common_snap_dir |-> None,
         snaps_selected_for_search |-> "MostProximateOnly"]]

\* no lookup runs beside a recursive search
NoLookup ==
    /\ path_set = {}
    /\ pending = {}
    /\ display_map = <<>>
    /\ trace = <<>>
    /\ result = [status |-> "pending", map |-> <<>>]

\* the state RecursiveSearch::exec starts in: the interactive consumer holds
\* both channels, the non-interactive wrapper dropped the receiver of its
\* dummy item channel when it made it
StartSearch(config_, tree) ==
    /\ NoLookup
    /\ config = config_
    /\ fs = tree
    /\ pc = "start"
    /\ queue = <<>>
    /\ item = None
    /\ hangup_closed = FALSE
    /\ skim_rx_dropped = (config_.exec_mode = "NonInteractiveRecursive")
    /\ skim = <<>>
    /\ printed = <<>>
    /\ deleted_scope = {}
    /\ processed = <<>>
    /\ entries_partitioned = None

\* an interactive search without a deleted mode, over every filter
InitFilter ==
    \E recursive, no_filter, no_hidden, zfs_listed, c_readable, reversed \in BOOLEAN,
       filter_dirs \in SUBSET FilterDirCandidates :
        StartSearch(SearchConfig(recursive, None, "Interactive", no_filter, no_hidden,
                                 filter_dirs),
                    IF reversed THEN Reversed(WideTree(zfs_listed, c_readable))
                    ELSE WideTree(zfs_listed, c_readable))

\* a search in each deleted mode, interactive or not
InitDeleted ==
    \E recursive \in BOOLEAN, deleted_mode \in {"Only", "DepthOfOne", "All"},
       exec_mode \in {"Interactive", "NonInteractiveRecursive"},
       snapshots \in SnapshotTrees :
        StartSearch(SearchConfig(recursive, Some(deleted_mode), exec_mode, FALSE, FALSE, {}),
                    LiveTree @@ snapshots)

\* /t with the directories a and b: the link /t/a/up points at /t, an
\* ancestor of the link; the link /t/a/l points at /t/b, and /t/b/m points
\* back at /t/b, its own parent, which /t/a/l/m has not among its ancestors
LinkTree ==
    (Tank :> Dir(<<"a", "b">>))
        @@ (<<"t", "a">> :> Dir(<<"g", "l", "up">>))
        @@ (<<"t", "b">> :> Dir(<<"h", "m">>))
        @@ (<<"t", "a", "l">> :> Symlink(<<"t", "b">>))
        @@ (<<"t", "a", "up">> :> Symlink(Tank))
        @@ (<<"t", "b", "m">> :> Symlink(<<"t", "b">>))
        @@ Files({<<"t", "a", "g">>, <<"t", "b", "h">>})

\* an interactive recursive search of a tree with links, traversing them or not
InitLinks ==
    \E no_traverse, reversed \in BOOLEAN :
        StartSearch([SearchConfig(TRUE, None, "Interactive", FALSE, FALSE, {})
                        EXCEPT !.opt_no_traverse = no_traverse],
                    IF reversed THEN Reversed(LinkTree) ELSE LinkTree)

\* the wide tree with a requested directory that cannot be read
UnreadableRootTree == [WideTree(FALSE, TRUE) EXCEPT ![Tank] = Unreadable]

\* an interactive search of a requested directory that cannot be read
InitUnreadableRoot ==
    \E recursive \in BOOLEAN :
        StartSearch(SearchConfig(recursive, None, "Interactive", FALSE, FALSE, {}),
                    UnreadableRootTree)

InitRecursive == InitFilter \/ InitDeleted \/ InitLinks \/ InitUnreadableRoot

SpecRecursive == InitRecursive /\ [][NextRecursive]_vars

\* The live enumeration on its own: a search without a deleted mode spawns
\* no task, of a tree with links or of a requested directory it cannot read
InitLive == InitLinks \/ InitUnreadableRoot

NextLive ==
    \/ EnterRequestedDir
    \/ Pop
    \/ EnterDir
    \/ ScopeExit
    \/ DropHangupSender
    \/ DropSkimReceiver

\* The search runs in a thread of its own: each of its steps is taken once it
\* can be. The consumer may keep its ends of the channels for ever.
FairLive ==
    /\ WF_vars(EnterRequestedDir)
    /\ WF_vars(Pop)
    /\ WF_vars(EnterDir)
    /\ WF_vars(ScopeExit)

SpecLiveFair == InitLive /\ [][NextLive]_vars /\ FairLive

----------------------------------------------------------------------------
(* SharedRecursive::get_entries_partitioned on its own: one call, for any   *)
(* requested directory of the configuration                                *)

\* /t with a directory of each name the filter knows
FilterTree ==
    (Tank :> Dir(<<".snapshots", ".zfs", "a", "f", "s">>))
        @@ (<<"t", ".snapshots">> :> Dir(<<>>)) @@ (<<"t", ".zfs">> :> Dir(<<>>))
        @@ (<<"t", "a">> :> Dir(<<>>)) @@ (<<"t", "s">> :> Dir(<<>>))
        @@ Files({<<"t", "f">>})
RequestedDirs ==
    {Tank, <<"t", ".snapshots">>, <<"t", ".zfs">>, <<"t", "a">>, <<"t", "s">>}
CommonSnapDirs == {None, Some(<<"t", ".snapshots">>), Some(<<"t", "s">>)}
FilterDirs == SUBSET {<<"t", "a">>, <<"t", "s">>}

InitPartition ==
    \E root \in RequestedDirs, common_snap_dir \in CommonSnapDirs,
       filter_dirs \in FilterDirs, no_filter, no_hidden \in BOOLEAN :
        /\ NoLookup
        /\ NoSearch
        /\ fs = FilterTree
        /\ config = [SearchConfig(FALSE, None, "Interactive", no_filter, no_hidden,
                                  filter_dirs)
                        EXCEPT !.opt_requested_dir = Some([path_buf |-> root,
                                                           metadata |-> None]),
                               !.dataset_collection.opt_common_snap_dir = common_snap_dir]

\* one call of get_entries_partitioned
GetEntriesPartitioned(dir) ==
    /\ entries_partitioned = None
    /\ entries_partitioned' = Some([requested_dir |-> dir,
                            result |-> get_entries_partitioned(config, dir)])
    /\ UNCHANGED <<config, fs, lookup_vars, recursive_vars>>

NextPartition == \E dir \in {Tank, <<"t", "a">>} : GetEntriesPartitioned(dir)

SpecPartition == InitPartition /\ [][NextPartition]_vars

----------------------------------------------------------------------------
(* Properties of the recursive search *)

ProcessedPaths == {processed[i].path : i \in DOMAIN processed}
\* the directories RecursiveMainLoop::new was called for after the hangup
\* channel was closed
ProcessedAfterClose == {i \in DOMAIN processed : processed[i].closed}
SentPaths(is_phantom) == {skim[i].path : i \in {k \in DOMAIN skim : skim[k].is_phantom = is_phantom}}
\* the search ran to its end with the consumer there all along
Uncancelled ==
    /\ pc = "returned"
    /\ ~hangup_closed
    /\ config.exec_mode = "Interactive" => ~skim_rx_dropped

\* the requested directory is a directory among the entries read, and
\* neither no_filter nor no_hidden decides about it
RequestedDirRead ==
    /\ entries_partitioned # None
    /\ entries_partitioned[1].result.ok
    /\ ~config.opt_no_filter
    /\ ~config.opt_no_hidden
    /\ parent(requested_dir) = entries_partitioned[1].requested_dir
RequestedDirKept ==
    requested_dir \in Range(paths_of(entries_partitioned[1].result.val.vec_dirs))

\* C22 (as claimed): with no_filter off, the entry whose path is the requested
\* directory is never dropped by the directory filter, whichever rule it
\* matches: the name .zfs, the name .snapshots, the common snap dir or the
\* filter dirs.
C22_UserRootExemption == RequestedDirRead => RequestedDirKept

\* C22 (amended): the entry whose path is the requested directory is kept
\* although it is among the filter dirs; it is dropped, like any other entry,
\* when its name is .zfs or .snapshots or when it is the common snap dir.
C22_UserRootExemptFromFilterDirs ==
    RequestedDirRead =>
        (RequestedDirKept <=>
            /\ file_name(requested_dir)
                   \notin {ZFS_HIDDEN_DIRECTORY, BTRFS_SNAPPER_HIDDEN_DIRECTORY}
            /\ dataset_collection.opt_common_snap_dir # Some(requested_dir))

\* C22 witness: the requested directory /t/a is among the filter dirs, as is
\* /t/s, and the call for /t keeps /t/a and drops /t/s
C22_Witness ==
    /\ RequestedDirRead
    /\ requested_dir = <<"t", "a">>
    /\ dataset_collection.filter_dirs = {<<"t", "a">>, <<"t", "s">>}
    /\ dataset_collection.opt_common_snap_dir = None
    /\ Range(paths_of(entries_partitioned[1].result.val.vec_dirs)) = {<<"t", "a">>}

\* C11: once the hangup channel is closed the live loop enters at most one
\* more directory; the check comes with every pop, before the popped
\* directory is read, and the loop that sees the channel closed ends with the
\* popped directory and the rest of the queue not entered.
C11_CancellationPromptness ==
    /\ Cardinality(ProcessedAfterClose) <= 1
    /\ pc = "checked" => item # None /\ item[1] \notin ProcessedPaths
    /\ (pc \in {"scope", "returned"} /\ item # None) =>
           /\ hangup_closed
           /\ item[1] \notin ProcessedPaths
           /\ \A i \in DOMAIN queue : queue[i] \notin ProcessedPaths

\* C11 witness: the channel was closed between a check and the read of the
\* popped directory; that directory was entered and the next pop ended the
\* loop with directories left in the queue
C11_Witness ==
    /\ pc = "returned"
    /\ item # None
    /\ queue # <<>>
    /\ Cardinality(ProcessedAfterClose) = 1
    /\ ~processed[1].closed

\* C12 (as claimed): a failed send into the item channel never ends the
\* search with an error and a non-zero exit, in whatever directory it fails,
\* the requested directory included: only a directory that cannot be read
\* does.
C12_SendFailureNotSurfaced ==
    pc = "exit" => ~get_entries_partitioned(config, requested_dir).ok

\* C13: in deleted mode Only no item with is_phantom = FALSE is ever on the
\* item channel.
C13_OnlyDeleted ==
    config.opt_deleted_mode = Some("Only") =>
        \A i \in DOMAIN skim : skim[i].is_phantom

\* C13 witness: mode Only, two directories with live entries entered, and
\* phantom items on the channel
C13_Witness ==
    /\ config.opt_deleted_mode = Some("Only")
    /\ Len(processed) = 2
    /\ \A i \in DOMAIN processed : processed[i].ok /\ read_dir(processed[i].path).val # <<>>
    /\ skim # <<>>

\* C23: the loop takes its next directory from the back of the queue, the
\* directories of an entered directory are appended at the back with the rest
\* of the queue as it was, no directory is entered twice and none that was
\* entered is in the queue.
C23_LIFO ==
    [][/\ (item' # item /\ item' # None) =>
              /\ queue # <<>>
              /\ item' = Some(queue[Len(queue)])
              /\ queue' = SubSeq(queue, 1, Len(queue) - 1)
       /\ Len(queue') >= Len(queue) => SubSeq(queue', 1, Len(queue)) = queue
       /\ Len(queue') < Len(queue) => queue' = SubSeq(queue, 1, Len(queue) - 1)
       /\ \A i, j \in DOMAIN processed' :
              processed'[i].path = processed'[j].path => i = j
       /\ \A i, j \in DOMAIN queue' : queue'[i] = queue'[j] => i = j
       /\ \A i \in DOMAIN queue' :
              queue'[i] \notin {processed'[k].path : k \in DOMAIN processed'}
      ]_vars

\* C23 witness: /t/a was enqueued after /t/s and entered before it, and so
\* was /t/a/c, enqueued last
C23_Witness ==
    /\ Len(processed) = 4
    /\ processed[2].path = <<"t", "a">>
    /\ processed[3].path = <<"t", "a", "c">>
    /\ processed[4].path = <<"t", "s">>

\* the phantom entries that came out, sent or printed
Emitted ==
    IF config.exec_mode = "Interactive"
    THEN SelectSeq(skim, LAMBDA candidate : candidate.is_phantom)
    ELSE [i \in DOMAIN printed |-> [path |-> printed[i], is_phantom |-> TRUE]]
\* the names a snapshot root of /t holds in the directory and the live directory lacks
DeletedNames(dir) ==
    {name \in Range(ComponentOrder) :
        /\ join(dir, <<name>>) \notin DOMAIN fs
        /\ \E root \in Range(dataset_collection.map_of_snaps[Tank]) :
               join(root, SubSeq(dir, Len(Tank) + 1, Len(dir)) \o <<name>>) \in DOMAIN fs}

EmittedPaths == {Emitted[k].path : k \in DOMAIN Emitted}
\* the snapshot's copy of a directory of /t, and what lies below a path
OnSnapshot(root, dir) == join(root, SubSeq(dir, Len(Tank) + 1, Len(dir)))
Below(path) == {p \in DOMAIN fs : starts_with(p, path) /\ p # path}
ReHomed(p, from, to) == join(to, SubSeq(p, Len(from) + 1, Len(p)))
\* the deleted directories of an entered directory
DeletedDirs(dir) ==
    {name \in DeletedNames(dir) :
        \E root \in Range(dataset_collection.map_of_snaps[Tank]) :
            is_dir(join(OnSnapshot(root, dir), <<name>>))}

ReadErrors == {i \in DOMAIN processed : ~read_dir(processed[i].path).ok}

\* the read error of the i-th directory entered was dropped: the search did
\* not end with an error, and a search that ran to its end without
\* cancellation left no directory in its queue
Swallowed(i) ==
    /\ pc # "exit"
    /\ Uncancelled => queue = <<>> /\ item = None

\* C26 (as claimed): in a recursive search the read error of every directory
\* entered, the requested directory included, is dropped: the search goes on
\* with the directories queued and ends without an error.
C26_ReadErrorSwallowed ==
    config.opt_recursive => \A i \in ReadErrors : Swallowed(i)

\* C26 (amended): in a recursive search the read error of a directory popped
\* from the queue is dropped, the search goes on with the directories queued
\* and ends without an error; the read error of the requested directory ends
\* the search with the error printed and exit status 1.
C26_ReadErrorSwallowedBelowRoot ==
    config.opt_recursive => \A i \in ReadErrors :
        IF i = 1 THEN pc = "exit" /\ Len(processed) = 1 /\ queue = <<>>
        ELSE Swallowed(i)

\* C26 witness: /t/a/c could not be read, /t/s was entered after it, and the
\* search returned
C26_Witness ==
    /\ config.opt_recursive
    /\ Uncancelled
    /\ \E i, j \in DOMAIN processed :
           /\ i \in ReadErrors
           /\ 1 < i /\ i < j
           /\ processed[i].path = <<"t", "a", "c">>
           /\ processed[j].path = <<"t", "s">> /\ processed[j].ok

\* the consumer closed the hangup channel or dropped the receiver of the
\* item channel
Cancelled ==
    \/ hangup_closed
    \/ config.exec_mode = "Interactive" /\ skim_rx_dropped

\* the search came to its end with every directory of its queue entered
QueueEmptied == pc = "returned" /\ queue = <<>> /\ item = None

\* C27: the search of every tree ends, the tree with the link /t/a/l to /t/b
\* and the link /t/b/m back to /t/b included, links traversed; a search that
\* is not cancelled and can read its requested directory ends with its queue
\* empty.
C27_Termination ==
    /\ <>(~Running)
    /\ <>(Cancelled \/ pc = "exit" \/ QueueEmptied)

\* C27 witness: links were traversed, /t/a/l/m was entered through the two
\* links, and the search that was not cancelled ended with its queue empty
C27_Witness ==
    /\ ~config.opt_no_traverse
    /\ fs = LinkTree
    /\ <<"t", "a", "l", "m">> \in ProcessedPaths
    /\ ~Cancelled
    /\ QueueEmptied

\* the live items on the item channel, in the order they were sent
LiveItems == SelectSeq(skim, LAMBDA candidate : ~candidate.is_phantom)

\* C29: on the item channel every live entry of a directory comes before
\* every live entry of every directory below it, in every tree, links
\* included.
C29_ParentBeforeBelow ==
    \A i, j \in DOMAIN LiveItems :
        LET dir   == parent(LiveItems[i].path)
            lower == parent(LiveItems[j].path)
        IN  (starts_with(lower, dir) /\ lower # dir) => i < j

\* C29 witness: the entry a of /t was sent before g of /t/s, which was sent
\* before h of /t/a/c: the stream is not sorted, and the entries of /t and
\* /t/a came before those of /t/a/c
C29_Witness ==
    \E i, j, k \in DOMAIN LiveItems :
        /\ i < j /\ j < k
        /\ LiveItems[i].path = <<"t", "a">>
        /\ LiveItems[j].path = <<"t", "s", "g">>
        /\ LiveItems[k].path = <<"t", "a", "c", "h">>

\* the same configuration with other filter dirs
WithFilterDirs(config_, filter_dirs) ==
    [config_ EXCEPT !.dataset_collection.filter_dirs = filter_dirs]
\* what the live enumeration of a queue of directories emits and enters
RECURSIVE Enumeration(_, _, _)
Enumeration(config_, dirs, done) ==
    IF dirs = <<>> THEN done
    ELSE LET dir  == dirs[Len(dirs)]
             rest == SubSeq(dirs, 1, Len(dirs) - 1)
             partitioned == get_entries_partitioned(config_, dir)
             entered == [done EXCEPT !.entered = @ \cup {dir}]
         IN  IF ~partitioned.ok THEN Enumeration(config_, rest, entered)
             ELSE Enumeration(config_,
                      IF config_.opt_recursive
                      THEN rest \o paths_of(partitioned.val.vec_dirs) ELSE rest,
                      [entered EXCEPT !.emitted = @
                          \cup Range(paths_of(partitioned.val.vec_files))
                          \cup Range(paths_of(partitioned.val.vec_dirs))])
EnumerationUnder(filter_dirs) ==
    Enumeration(WithFilterDirs(config, filter_dirs), <<requested_dir>>,
                [emitted |-> {}, entered |-> {}])

\* C30: a non-interactive search is never cut short by its channels: the
\* hangup channel is never closed, no item is ever on the item channel, no
\* directory is given up for anything but a failed read, and the search that
\* returned has entered every directory the enumeration of the requested
\* directory reaches, with nothing left in the queue of a recursive search.
C30_NonInteractiveNotCutShort ==
    config.exec_mode = "NonInteractiveRecursive" =>
        /\ ~hangup_closed
        /\ skim = <<>>
        /\ \A i \in DOMAIN processed : ~processed[i].ok => i \in ReadErrors
        /\ pc = "exit" => ReadErrors # {}
        /\ pc = "returned" =>
               /\ config.opt_recursive => queue = <<>> /\ item = None
               /\ EnumerationUnder(dataset_collection.filter_dirs).entered
                      \subseteq ProcessedPaths

\* C30 witness: a non-interactive recursive search returned with /t and /t/a
\* entered, deleted entries printed and nothing on the item channel
C30_Witness ==
    /\ config.exec_mode = "NonInteractiveRecursive"
    /\ config.opt_recursive
    /\ pc = "returned"
    /\ ProcessedPaths = {Tank, <<"t", "a">>}
    /\ printed # <<>>
    /\ skim = <<>>

\* C15: what the enumeration emits, and the directories it enters, with one
\* more filter dir is among what it emitted and entered without, for every
\* set of filter dirs and every further dir, also one that raises the
\* maximum length gating the lookup.
C15_FilterMonotonicity ==
    (Uncancelled /\ config.opt_deleted_mode = None) =>
        \A dir \in FilterDirCandidates :
            LET more == EnumerationUnder(dataset_collection.filter_dirs \cup {dir})
            IN  /\ more.emitted \subseteq SentPaths(FALSE)
                /\ more.entered \subseteq ProcessedPaths

\* C15 witness: /t/s is the one filter dir; /t/a/c is deeper than it, was
\* entered and its file emitted, and would not be were it a filter dir too
C15_Witness ==
    /\ Uncancelled
    /\ dataset_collection.filter_dirs = {<<"t", "s">>}
    /\ ~config.opt_no_filter
    /\ <<"t", "s">> \notin SentPaths(FALSE)
    /\ <<"t", "a", "c", "h">> \in SentPaths(FALSE)
    /\ <<"t", "a", "c", "h">> \notin EnumerationUnder(FilterDirCandidates).emitted

====
